---- MODULE Spec2Model ----
(***************************************************************************)
(* Verification model of the renum-backend core:                           *)
(*   - ProcessManager (app/process/manager.py): one child process behind   *)
(*     a stdio pipe, driven by asyncio coroutines;                         *)
(*   - AgentProcessFactory (app/process/factory.py): the instance table;   *)
(*   - FallbackStrategy / LLMFallbackManager (app/utils/fallback.py).      *)
(*                                                                         *)
(* Coroutines are modelled at the granularity of the event loop: a task    *)
(* runs from one await to the next without interruption.  `cur` is the     *)
(* task that holds the loop (0 when the loop is free); a task gives the    *)
(* loop back only when it reaches an await.                                *)
(***************************************************************************)
EXTENDS Integers, Sequences, FiniteSets, TLC

\* ------------------------------------------------------------------ bounds
MaxSpawn == 3
ResponseTicks == 1
StartupTicks == 1
MaxCalls == 1
MaxProc == 2
MaxProviders == 3
MaxAttempts == 5
MaxEmbProviders == 2
MaxEmbCalls == 2
MaxTasks == 2
MaxSaveFailures == 1
MaxAdds == 4
MaxFbCalls == 2

\* ------------------------------------------------------- program constants
DEFAULT_PM_MAX_RETRIES == 3
DEFAULT_MAX_RETRIES == 3
\* fallback.py lines 18-19, in milliseconds
DEFAULT_BASE_DELAY == 1000
DEFAULT_MAX_DELAY == 10000
\* embedding_providers.py line 119: length of the zero vector OpenAI's provider
\* returns when its request fails
OPENAI_ZERO_DIMENSION == 1536
\* hashlib.md5(...).hexdigest() has 32 hexadecimal digits
MD5_HEX_LENGTH == 32

Tasks == {1, 2}
Children == 1..(MaxSpawn + 2)

VARIABLES
    max_retries,      \* self.max_retries, fixed at construction
    process,          \* self.process: 0 is None, else the child handle
    is_initialized,   \* self.is_initialized
    is_running,       \* self.is_running
    child,            \* OS state of every child ever spawned
    inq,              \* requests written to a child's stdin, not yet read by it
    outq,             \* lines the child has written to stdout, not yet read
    nspawn,           \* number of children spawned so far
    calls,            \* calls that have returned to their caller
    cur,              \* task holding the event loop, 0 when it is free
    task              \* per-task coroutine position and locals

VARIABLES
    processes,        \* AgentProcessFactory.processes: process_id -> instance
    agent_configs,    \* AgentProcessFactory.agent_configs: agent ids already loaded
    nproc,            \* process ids handed out so far (uuid4 never repeats)
    rcur,             \* dispatcher holding the event loop, 0 when it is free
    rtask,            \* per-dispatcher position in send_prompt and its locals
    lastStatus,       \* the latest get_agent_status call: its argument and outcome
    lastReturn,       \* value returned by the latest terminate_agent / terminate_all_agents
    terminated,       \* process ids for which terminate_agent has returned True
    serial,           \* per instance: the history a one-at-a-time execution leaves
    trimmed           \* per instance: the memory has dropped a message

regVars == <<processes, agent_configs, nproc, rcur, rtask, lastStatus, lastReturn,
             terminated, serial, trimmed>>

VARIABLES
    fb_config,        \* LLMFallbackManager.config: retry budget and the provider list
    fb                \* position and locals of one generate_text call

VARIABLES
    st_config,        \* FallbackStrategy: max_retries, base_delay, max_delay, jitter,
                      \* and the fallback_func one execute_with_fallback call is given
    fs                \* position and locals of one execute_with_fallback call

stVars == <<st_config, fs>>

VARIABLES
    emb_config,       \* EmbeddingFallbackManager.config: providers, retry budget,
                      \* dummy_dimension
    emb               \* position and locals of get_embedding calls

embVars == <<emb_config, emb>>

VARIABLES
    fr                \* one _read_response run over the lines of one encoded value

frVars == <<fr>>

VARIABLES
    ts                \* a TaskStore, its storage file, and a second TaskStore opened
                      \* on the same storage path

tsVars == <<ts>>

VARIABLES
    mem               \* one SimpleMemory and the messages added to it so far

memVars == <<mem>>

fbVars == <<fb_config, fb, stVars, embVars, frVars, tsVars, memVars>>

pmVars == <<max_retries, process, is_initialized, is_running, child, inq, outq, nspawn,
           calls, cur, task>>

\* the awaits of manager.py: places where a coroutine gives up the loop
SuspendPcs == {"spawning", "startup_drain", "startup_sleep", "startup_errsleep",
               "cleanup_wait", "restart_sleep", "send_drain", "read_wait",
               "read_sleep"}

\* the request a call writes: the prompt of the n-th call of caller t
NoRequest == [t |-> 0, n |-> 0]

IdleTask == [pc |-> "idle", op |-> "none", ictx |-> "-", cctx |-> "-",
             ires |-> FALSE, h |-> 0, retry_count |-> 0, parts |-> FALSE,
             ticks |-> 0, big |-> FALSE, result |-> "none", got |-> NoRequest,
             attempts |-> 0, restarts |-> 0, wh |-> 0, overlap |-> FALSE,
             probe |-> "none", sig |-> <<>>]

PMInit ==
    /\ process = 0
    /\ calls = 0
    /\ is_initialized = FALSE
    /\ is_running = FALSE
    /\ child = [k \in Children |-> "none"]
    /\ inq = [k \in Children |-> <<>>]
    /\ outq = [k \in Children |-> <<>>]
    /\ nspawn = 0
    /\ cur = 0
    /\ task = [t \in Tasks |-> IdleTask]

\* children a run may spawn: a single caller with the default retry budget
\* needs one child per attempt
SpawnLimit == IF max_retries = DEFAULT_PM_MAX_RETRIES THEN MaxSpawn + 2 ELSE MaxSpawn

\* the task may run: the loop is free or it already holds it
Runs(t, at) == task[t].pc = at /\ cur \in {0, t}

Sched(t, newpc) == IF newpc \in SuspendPcs \cup {"done"} THEN 0 ELSE t

\* line 190: not self.is_initialized or not self.is_running
\* variant: the not-ready error is returned without looking at the flags
NotReadyAlways == TRUE

NotReady == ~is_initialized \/ ~is_running

\* variant: the retry loop runs one more round
LoopCondOneMore(rc) == rc <= max_retries + 1

\* line 197: while retry_count <= self.max_retries
LoopCond(rc) == rc <= max_retries

RangeOf(s) == {s[i] : i \in 1..Len(s)}

\* line 200: the prompt the call encodes and writes
Request(t) == [t |-> t, n |-> calls + 1]

\* a send_prompt_and_get_response call that has written a request and has not
\* yet returned: its exchange, or the restart that follows it, is under way
MidSend(u) == task[u].op = "send" /\ task[u].pc # "done" /\ task[u].attempts >= 1

\* the call has written its request and has neither its response nor a failure
InFlight(u) == task[u].op = "send" /\ task[u].wh # 0

\* a pipe that no coroutine holds and self.process does not name is never
\* read or written again: its content is dropped from the state
Gc(q, p, tk) == [k \in Children |->
                   IF k = p \/ \E t \in Tasks : tk[t].h = k THEN q[k] ELSE <<>>]

\* ------------------------------------------------------------ entry points
\* send_prompt_and_get_response, lines 190-194 up to the first await
CallSend(t) ==
    /\ Runs(t, "idle")
    /\ \E b \in BOOLEAN :
        task' = [task EXCEPT ![t].op = "send", ![t].big = b,
                             ![t].pc = IF NotReady THEN "init_begin" ELSE "loop_head",
                             ![t].ictx = IF NotReady THEN "entry" ELSE "-"]
    /\ cur' = t
    /\ UNCHANGED <<regVars, fbVars, max_retries, calls, process, is_initialized, is_running, child, nspawn>>
    /\ inq' = Gc(inq, process', task')
    /\ outq' = Gc(outq, process', task')

\* initialize() called directly (get_process_manager, taskmaster.py:62)
CallInitialize(t) ==
    /\ Runs(t, "idle")
    /\ task' = [task EXCEPT ![t].op = "init", ![t].pc = "init_begin", ![t].ictx = "top"]
    /\ cur' = t
    /\ UNCHANGED <<regVars, fbVars, max_retries, calls, process, is_initialized, is_running, child, nspawn>>
    /\ inq' = Gc(inq, process', task')
    /\ outq' = Gc(outq, process', task')

\* shutdown(), lines 372-378
CallShutdown(t) ==
    /\ Runs(t, "idle")
    /\ task' = [task EXCEPT ![t].op = "shutdown", ![t].pc = "cleanup_begin",
                             ![t].cctx = "shutdown",
                             ![t].overlap = \E u \in Tasks \ {t} : MidSend(u)]
    /\ cur' = t
    /\ UNCHANGED <<regVars, fbVars, max_retries, calls, process, is_initialized, is_running, child, nspawn>>
    /\ inq' = Gc(inq, process', task')
    /\ outq' = Gc(outq, process', task')

\* -------------------------------------------------------------- initialize
\* lines 80-88: the already-initialized check, then await create_subprocess_exec
InitBegin(t) ==
    /\ Runs(t, "init_begin")
    /\ IF is_initialized
         THEN task' = [task EXCEPT ![t].pc = "init_ret", ![t].ires = TRUE,
                                   ![t].probe = "already"]
         ELSE task' = [task EXCEPT ![t].pc = "spawning", ![t].probe = "none"]
    /\ cur' = Sched(t, task'[t].pc)
    /\ UNCHANGED <<regVars, fbVars, max_retries, calls, process, is_initialized, is_running, child, nspawn>>
    /\ inq' = Gc(inq, process', task')
    /\ outq' = Gc(outq, process', task')

\* lines 88-101 and 126-138: the child exists, self.process is assigned, the
\* first pass of _wait_for_startup runs up to its drain
SpawnOk(t) ==
    /\ Runs(t, "spawning")
    /\ nspawn < SpawnLimit
    /\ LET k == nspawn + 1 IN
       \E st \in {"live", "exited"} :
         /\ nspawn' = k
         /\ child' = [child EXCEPT ![k] = st]
         /\ process' = k
         /\ IF st = "exited"
              THEN task' = [task EXCEPT ![t].pc = "cleanup_begin",
                                        ![t].cctx = "init"]
              ELSE task' = [task EXCEPT ![t].pc = "startup_drain",
                                        ![t].h = k, ![t].ticks = 0]
    /\ cur' = Sched(t, task'[t].pc)
    /\ UNCHANGED <<regVars, fbVars, max_retries, calls, is_initialized, is_running>>
    /\ inq' = Gc(inq, process', task')
    /\ outq' = Gc(outq, process', task')

\* lines 114-117: create_subprocess_exec raised
SpawnFail(t) ==
    /\ Runs(t, "spawning")
    /\ task' = [task EXCEPT ![t].pc = "cleanup_begin", ![t].cctx = "init"]
    /\ cur' = t
    /\ UNCHANGED <<regVars, fbVars, max_retries, calls, process, is_initialized, is_running, child, nspawn>>
    /\ inq' = Gc(inq, process', task')
    /\ outq' = Gc(outq, process', task')

\* variant: a pipe error of the probe is ignored and startup goes on
StartupDrainIgnoresPipeError(t) ==
    /\ Runs(t, "startup_drain")
    /\ task' = [task EXCEPT ![t].pc = "startup_sleep", ![t].h = 0,
                            ![t].probe = IF child[task[t].h] = "live"
                                           THEN "written" ELSE @]
    /\ cur' = Sched(t, task'[t].pc)
    /\ UNCHANGED <<regVars, fbVars, max_retries, calls, process, is_initialized, is_running, child, nspawn>>
    /\ inq' = Gc(inq, process', task')
    /\ outq' = Gc(outq, process', task')

\* lines 138-148: the probe's drain returns or raises a pipe error
StartupDrain(t) ==
    /\ Runs(t, "startup_drain")
    /\ IF child[task[t].h] = "live"
         THEN task' = [task EXCEPT ![t].pc = "startup_sleep", ![t].h = 0,
                                   ![t].probe = "written"]
         ELSE task' = [task EXCEPT ![t].pc = "cleanup_begin", ![t].cctx = "init", ![t].h = 0]
    /\ cur' = Sched(t, task'[t].pc)
    /\ UNCHANGED <<regVars, fbVars, max_retries, calls, process, is_initialized, is_running, child, nspawn>>
    /\ inq' = Gc(inq, process', task')
    /\ outq' = Gc(outq, process', task')

\* lines 150-152: the probe raised something that is not a pipe error
StartupError(t) ==
    /\ Runs(t, "startup_drain")
    /\ child[task[t].h] = "live"
    /\ task' = [task EXCEPT ![t].pc = "startup_errsleep", ![t].h = 0]
    /\ cur' = 0
    /\ UNCHANGED <<regVars, fbVars, max_retries, calls, process, is_initialized, is_running, child, nspawn>>
    /\ inq' = Gc(inq, process', task')
    /\ outq' = Gc(outq, process', task')

\* lines 128-138 and 154-155: next pass of the startup loop after the sleep
StartupRetry(t) ==
    /\ Runs(t, "startup_errsleep")
    /\ LET n == task[t].ticks + 1 IN
       IF n >= StartupTicks \/ process = 0 \/ child[process] # "live"
         THEN task' = [task EXCEPT ![t].pc = "cleanup_begin", ![t].cctx = "init", ![t].ticks = 0]
         ELSE task' = [task EXCEPT ![t].pc = "startup_drain", ![t].h = process, ![t].ticks = n]
    /\ cur' = Sched(t, task'[t].pc)
    /\ UNCHANGED <<regVars, fbVars, max_retries, calls, process, is_initialized, is_running, child, nspawn>>
    /\ inq' = Gc(inq, process', task')
    /\ outq' = Gc(outq, process', task')

\* lines 141-144 and 103-108: the probe succeeded
StartupDone(t) ==
    /\ Runs(t, "startup_sleep")
    /\ is_initialized' = TRUE
    /\ is_running' = TRUE
    /\ task' = [task EXCEPT ![t].pc = "init_ret", ![t].ires = TRUE, ![t].ticks = 0]
    /\ cur' = t
    /\ UNCHANGED <<regVars, fbVars, max_retries, calls, process, child, nspawn>>
    /\ inq' = Gc(inq, process', task')
    /\ outq' = Gc(outq, process', task')

\* initialize has returned to its caller: lines 193-194, 211-213, 234-245
InitRet(t) ==
    /\ Runs(t, "init_ret")
    /\ CASE task[t].ictx = "top" ->
              task' = [task EXCEPT ![t].pc = "done", ![t].ictx = "-",
                                   ![t].result = IF task[t].ires THEN "true" ELSE "false"]
         [] task[t].ictx = "entry" ->
              IF NotReady
                THEN task' = [task EXCEPT ![t].pc = "done", ![t].ictx = "-",
                                          ![t].result = "init_failed"]
                ELSE task' = [task EXCEPT ![t].pc = "loop_head", ![t].ictx = "-"]
         [] OTHER ->
              task' = [task EXCEPT ![t].pc = "loop_head", ![t].ictx = "-",
                                   ![t].retry_count = @ + 1]
    /\ cur' = Sched(t, task'[t].pc)
    /\ UNCHANGED <<regVars, fbVars, max_retries, calls, process, is_initialized, is_running, child, nspawn>>
    /\ inq' = Gc(inq, process', task')
    /\ outq' = Gc(outq, process', task')

\* ----------------------------------------------------------------- cleanup
\* a signal _cleanup sends and the state of its target at that moment
Signal(s, to) == [s |-> s, to |-> to]

\* lines 348-360: flags down, terminate a running child and await its exit
CleanupBegin(t) ==
    /\ Runs(t, "cleanup_begin")
    /\ is_running' = FALSE
    /\ is_initialized' = FALSE
    /\ IF process # 0 /\ child[process] = "live"
         THEN /\ task' = [task EXCEPT ![t].pc = "cleanup_wait", ![t].h = process,
                                      ![t].sig = <<Signal("terminate", "live")>>]
              /\ process' = process
         ELSE /\ task' = [task EXCEPT ![t].pc = "cleanup_ret", ![t].sig = <<>>]
              /\ process' = 0
    /\ cur' = Sched(t, task'[t].pc)
    /\ UNCHANGED <<regVars, fbVars, max_retries, calls, child, nspawn>>
    /\ inq' = Gc(inq, process', task')
    /\ outq' = Gc(outq, process', task')

\* lines 355, 365-370: terminate() raises because the child is gone although
\* its returncode is not set yet; the error is logged, the wait is skipped
CleanupTerminateRaises(t) ==
    /\ Runs(t, "cleanup_begin")
    /\ process # 0 /\ child[process] = "live"
    /\ is_running' = FALSE
    /\ is_initialized' = FALSE
    /\ child' = [child EXCEPT ![process] = "exited"]
    /\ task' = [task EXCEPT ![t].pc = "cleanup_ret",
                            ![t].sig = <<Signal("terminate", "raised")>>]
    /\ process' = 0
    /\ cur' = t
    /\ UNCHANGED <<regVars, fbVars, max_retries, calls, nspawn>>
    /\ inq' = Gc(inq, process', task')
    /\ outq' = Gc(outq, process', task')

\* variant: the forced kill is issued although the child exited in time
CleanupWaitExitedKills(t) ==
    /\ Runs(t, "cleanup_wait")
    /\ child[task[t].h] = "exited"
    /\ process' = 0
    /\ task' = [task EXCEPT ![t].pc = "cleanup_ret", ![t].h = 0,
                            ![t].sig = Append(@, Signal("kill", "exited"))]
    /\ cur' = t
    /\ UNCHANGED <<regVars, fbVars, max_retries, calls, is_initialized, is_running, child, nspawn>>
    /\ inq' = Gc(inq, process', task')
    /\ outq' = Gc(outq, process', task')

\* lines 360, 369-370: the child exited within the grace window
CleanupWaitExited(t) ==
    /\ Runs(t, "cleanup_wait")
    /\ child[task[t].h] = "exited"
    /\ process' = 0
    /\ task' = [task EXCEPT ![t].pc = "cleanup_ret", ![t].h = 0]
    /\ cur' = t
    /\ UNCHANGED <<regVars, fbVars, max_retries, calls, is_initialized, is_running, child, nspawn>>
    /\ inq' = Gc(inq, process', task')
    /\ outq' = Gc(outq, process', task')

\* lines 361-370: grace window over, self.process.kill() on the handle that
\* self.process names now, then self.process = None
CleanupWaitTimeout(t) ==
    /\ Runs(t, "cleanup_wait")
    /\ child[task[t].h] = "live"
    /\ child' = IF process # 0 THEN [child EXCEPT ![process] = "exited"] ELSE child
    /\ process' = 0
    /\ task' = [task EXCEPT ![t].pc = "cleanup_ret", ![t].h = 0,
                            ![t].sig = Append(@, Signal("kill",
                                IF process = 0 THEN "none" ELSE child[process]))]
    /\ cur' = t
    /\ inq' = Gc(inq, process', task')
    /\ UNCHANGED <<regVars, fbVars, max_retries, calls, is_initialized, is_running, nspawn>>
    /\ outq' = Gc(outq, process', task')

\* _cleanup has returned: shutdown 378, initialize 112/117, _restart_process 339
CleanupRet(t) ==
    /\ Runs(t, "cleanup_ret")
    /\ CASE task[t].cctx = "shutdown" ->
              task' = [task EXCEPT ![t].pc = "done", ![t].cctx = "-", ![t].sig = <<>>,
                                   ![t].result = "shutdown"]
         [] task[t].cctx = "init" ->
              task' = [task EXCEPT ![t].pc = "init_ret", ![t].cctx = "-", ![t].sig = <<>>,
                                   ![t].ires = FALSE]
         [] OTHER ->
              task' = [task EXCEPT ![t].pc = "restart_sleep", ![t].cctx = "-",
                                   ![t].sig = <<>>]
    /\ cur' = Sched(t, task'[t].pc)
    /\ UNCHANGED <<regVars, fbVars, max_retries, calls, process, is_initialized, is_running, child, nspawn>>
    /\ inq' = Gc(inq, process', task')
    /\ outq' = Gc(outq, process', task')

\* lines 339-342: the backoff sleep is over, initialize again
RestartSleepDone(t) ==
    /\ Runs(t, "restart_sleep")
    /\ task' = [task EXCEPT ![t].pc = "init_begin", ![t].ictx = "restart"]
    /\ cur' = t
    /\ UNCHANGED <<regVars, fbVars, max_retries, calls, process, is_initialized, is_running, child, nspawn>>
    /\ inq' = Gc(inq, process', task')
    /\ outq' = Gc(outq, process', task')

\* ------------------------------------------------ send_prompt_and_get_response
\* variant: no except clause takes the error, it leaves the call
RestartingRaises(t) == [task EXCEPT ![t].pc = "done", ![t].result = "raised",
                                    ![t].h = 0, ![t].wh = 0,
                                    ![t].parts = FALSE, ![t].ticks = 0]

\* _restart_process is entered (lines 211, 234, 239, 244): its _cleanup runs first
Restarting(t) == [task EXCEPT ![t].pc = "cleanup_begin", ![t].cctx = "restart",
                              ![t].restarts = @ + 1, ![t].h = 0, ![t].wh = 0,
                              ![t].parts = FALSE, ![t].ticks = 0]

\* variant: text that does not decode is handled like a transport failure
ReadReturnedRestarts(t) ==
    IF task[t].parts
      THEN [task EXCEPT ![t].pc = "cleanup_begin", ![t].cctx = "restart",
                        ![t].restarts = @ + 1, ![t].retry_count = @ + 1,
                        ![t].h = 0, ![t].wh = 0, ![t].parts = FALSE, ![t].ticks = 0]
      ELSE [task EXCEPT ![t].pc = "done", ![t].h = 0, ![t].ticks = 0,
                        ![t].parts = FALSE, ![t].wh = 0, ![t].result = "empty"]

\* _read_response returned (lines 322-325) and lines 219-230 turn it into a result
ReadReturned(t) == [task EXCEPT ![t].pc = "done", ![t].h = 0, ![t].ticks = 0,
                                ![t].parts = FALSE, ![t].wh = 0,
                                ![t].result = IF task[t].parts THEN "parse_error"
                                                               ELSE "empty"]

\* lines 197-213 and 247-248: loop test, then write the prompt and await drain
LoopHead(t) ==
    /\ Runs(t, "loop_head")
    /\ IF LoopCond(task[t].retry_count)
         THEN IF process # 0
                THEN /\ task' = [task EXCEPT ![t].pc = "send_drain", ![t].h = process,
                                             ![t].wh = process, ![t].attempts = @ + 1]
                     /\ inq' = IF child[process] = "live"
                                 THEN [inq EXCEPT ![process] = Append(@, Request(t))]
                                 ELSE inq
                ELSE /\ task' = Restarting(t)
                     /\ inq' = Gc(inq, process, task')
         ELSE /\ task' = [task EXCEPT ![t].pc = "done", ![t].result = "exhausted"]
              /\ inq' = Gc(inq, process, task')
    /\ cur' = Sched(t, task'[t].pc)
    /\ UNCHANGED <<regVars, fbVars, max_retries, calls, process, is_initialized, is_running, child, nspawn>>
    /\ outq' = Gc(outq, process', task')

\* the drain of line 207 can return: the child took the bytes, or they fit the pipe
Drained(t) == ~task[t].big \/ Request(t) \notin RangeOf(inq[task[t].h])

\* lines 207-216, 232-235, 257-261: drain raises a pipe error, or returns and
\* _read_response starts
SendDrain(t) ==
    /\ Runs(t, "send_drain")
    /\ \/ /\ child[task[t].h] # "live"
          /\ task' = Restarting(t)
       \/ /\ child[task[t].h] = "live"
          /\ Drained(t)
          /\ IF process = 0
               THEN task' = ReadReturned(t)
               ELSE task' = [task EXCEPT ![t].pc = "read_head", ![t].h = 0,
                                         ![t].parts = FALSE, ![t].ticks = 0]
    /\ cur' = Sched(t, task'[t].pc)
    /\ UNCHANGED <<regVars, fbVars, max_retries, calls, process, is_initialized, is_running, child, nspawn>>
    /\ inq' = Gc(inq, process', task')
    /\ outq' = Gc(outq, process', task')

\* lines 263-269, 317-319: loop test on the elapsed time, then await readline
ReadHead(t) ==
    /\ Runs(t, "read_head")
    /\ IF task[t].ticks >= ResponseTicks \/ process = 0
         THEN task' = ReadReturned(t)
         ELSE task' = [task EXCEPT ![t].pc = "read_wait", ![t].h = process]
    /\ cur' = Sched(t, task'[t].pc)
    /\ UNCHANGED <<regVars, fbVars, max_retries, calls, process, is_initialized, is_running, child, nspawn>>
    /\ inq' = Gc(inq, process', task')
    /\ outq' = Gc(outq, process', task')

\* lines 279-298 and 219-223: a line arrived; it decodes, or it is kept as a part
ReadChunk(t) ==
    /\ Runs(t, "read_wait")
    /\ outq[task[t].h] # <<>>
    /\ LET k == task[t].h
           m == Head(outq[k]) IN
       /\ IF m.form = "json"
            THEN task' = [task EXCEPT ![t].pc = "done", ![t].h = 0, ![t].ticks = 0,
                                      ![t].parts = FALSE, ![t].wh = 0, ![t].result = "ok",
                                      ![t].got = m.req]
            ELSE task' = [task EXCEPT ![t].pc = "read_head", ![t].h = 0,
                                      ![t].parts = TRUE, ![t].ticks = @ + 1]
       /\ outq' = Gc([outq EXCEPT ![k] = Tail(@)], process, task')
    /\ cur' = Sched(t, task'[t].pc)
    /\ UNCHANGED <<regVars, fbVars, max_retries, calls, process, is_initialized, is_running, child, nspawn>>
    /\ inq' = Gc(inq, process', task')

\* lines 271-276: readline returned b"" (end of file)
ReadEOF(t) ==
    /\ Runs(t, "read_wait")
    /\ outq[task[t].h] = <<>>
    /\ child[task[t].h] # "live"
    /\ IF task[t].parts
         THEN task' = ReadReturned(t)
         ELSE task' = [task EXCEPT ![t].pc = "read_sleep", ![t].h = 0]
    /\ cur' = Sched(t, task'[t].pc)
    /\ UNCHANGED <<regVars, fbVars, max_retries, calls, process, is_initialized, is_running, child, nspawn>>
    /\ inq' = Gc(inq, process', task')
    /\ outq' = Gc(outq, process', task')

\* line 275-276: the 0.1 s pause after an empty read is over
ReadSleepDone(t) ==
    /\ Runs(t, "read_sleep")
    /\ task' = [task EXCEPT ![t].pc = "read_head", ![t].ticks = @ + 1]
    /\ cur' = t
    /\ UNCHANGED <<regVars, fbVars, max_retries, calls, process, is_initialized, is_running, child, nspawn>>
    /\ inq' = Gc(inq, process', task')
    /\ outq' = Gc(outq, process', task')

\* lines 300-315: no line within one second.  self.process is read again; when
\* it is None the AttributeError leaves _read_response and reaches line 242
ReadTimeout(t) ==
    /\ Runs(t, "read_wait")
    /\ outq[task[t].h] = <<>>
    /\ child[task[t].h] = "live"
    /\ IF process = 0
         THEN task' = Restarting(t)
         ELSE IF child[process] # "live"
                THEN task' = ReadReturned(t)
                ELSE task' = [task EXCEPT ![t].pc = "read_head", ![t].h = 0,
                                          ![t].ticks = @ + 1]
    /\ cur' = Sched(t, task'[t].pc)
    /\ UNCHANGED <<regVars, fbVars, max_retries, calls, process, is_initialized, is_running, child, nspawn>>
    /\ inq' = Gc(inq, process', task')
    /\ outq' = Gc(outq, process', task')

\* ------------------------------------------------------------ the children
\* the child reads one request from its stdin and answers it with a line that
\* decodes, a line that does not, or not at all
ChildRead(k) ==
    /\ cur = 0
    /\ child[k] = "live"
    /\ inq[k] # <<>>
    /\ inq' = [inq EXCEPT ![k] = Tail(@)]
    /\ \E form \in {"json", "bad", "none"} :
         outq' = IF form = "none" THEN outq
                 ELSE Gc([outq EXCEPT ![k] = Append(@, [req |-> Head(inq[k]), form |-> form])],
                         process, task)
    /\ UNCHANGED <<regVars, fbVars, max_retries, calls, process, is_initialized, is_running, child, nspawn, cur, task>>

\* the child exits: on its own, or after the terminate signal of line 356
ChildExit(k) ==
    /\ cur = 0
    /\ child[k] = "live"
    /\ child' = [child EXCEPT ![k] = "exited"]
    /\ inq' = [inq EXCEPT ![k] = <<>>]
    /\ UNCHANGED <<regVars, fbVars, max_retries, calls, process, is_initialized, is_running, outq, nspawn, cur, task>>

\* the caller has its result and issues its next call
NextCall(t) ==
    /\ Runs(t, "done")
    /\ calls < MaxCalls
    /\ calls' = calls + 1
    /\ task' = [task EXCEPT ![t] = IdleTask]
    /\ UNCHANGED <<regVars, fbVars, max_retries, process, is_initialized, is_running,
                   child, inq, outq, nspawn, cur>>

\* ======================================================== fallback managers
\* a provider always answers, always raises, or does either from call to call
\* ========================================================= FallbackStrategy
\* FallbackStrategy.__init__, fallback.py lines 33-36: the configuration values
AttemptChoices == 0..MaxAttempts
BaseDelayChoices == {DEFAULT_BASE_DELAY, 3 * DEFAULT_BASE_DELAY}
MaxDelayChoices == {DEFAULT_MAX_DELAY, DEFAULT_MAX_DELAY \div 4}
\* the fallback_func argument: None, a function that returns, one that raises
FallbackChoices == {"none", "ok", "fail"}
ArgChoices == {"x", "y"}

\* last_exception = None (line 50); the TypeError that "raise None" produces
NoException == [fn |-> "none", n |-> 0]
RaiseNoneError == [fn |-> "TypeError", n |-> 0]

StIdleCall == [pc |-> "idle", attempt |-> 0, args |-> "-", calls |-> <<>>,
               delays |-> <<>>, last_exception |-> NoException,
               result |-> [kind |-> "none", value |-> NoException]]

StDefaultConfig == [max_retries |-> DEFAULT_MAX_RETRIES, base_delay |-> DEFAULT_BASE_DELAY,
                    max_delay |-> DEFAULT_MAX_DELAY, jitter |-> TRUE, fallback |-> "none"]

StIdle == st_config = StDefaultConfig /\ fs = StIdleCall

StInit ==
    /\ st_config \in [max_retries : AttemptChoices, base_delay : BaseDelayChoices,
                      max_delay : MaxDelayChoices, jitter : BOOLEAN,
                      fallback : FallbackChoices]
    /\ fs = StIdleCall

\* variant: the attempt loop runs one more round
StMoreAttemptsOneMore(done) == done <= st_config.max_retries

\* line 53: for attempt in range(self.max_retries)
StMoreAttempts(done) == done < st_config.max_retries

\* variant: a supplied fallback function is ignored
UseFallbackNever == FALSE

\* line 70: if fallback_func
UseFallback == st_config.fallback # "none"

RECURSIVE Pow2(_)
Pow2(n) == IF n = 0 THEN 1 ELSE 2 * Pow2(n - 1)

Min(a, b) == IF a <= b THEN a ELSE b

\* variant: the exponential delay is not capped
DelayUncapped(attempt) == st_config.base_delay * Pow2(attempt)

\* line 62: delay = min(self.base_delay * (2 ** attempt), self.max_delay)
Delay(attempt) == Min(st_config.base_delay * Pow2(attempt), st_config.max_delay)

\* lines 63-64: delay * (0.5 + random.random()), random() in [0, 1): the least
\* value, the nominal one, and the greatest whole millisecond below 1.5 * delay
Jittered(d) == IF st_config.jitter
                 THEN {(d + 1) \div 2, d, (3 * d - 1) \div 2}
                 ELSE {d}

\* execute_with_fallback is called: lines 50-53
ExecuteWithFallback ==
    /\ fs.pc = "idle"
    /\ \E a \in ArgChoices :
         fs' = [fs EXCEPT !.args = a,
                          !.pc = IF StMoreAttempts(0) THEN "attempt" ELSE "after"]
    /\ UNCHANGED <<st_config, fb_config, fb, embVars, frVars, tsVars, memVars, regVars, pmVars>>

\* lines 54-66: one call of primary_func; it returns, or it raises and the
\* delay to sleep is computed
TryPrimary ==
    /\ fs.pc = "attempt"
    /\ \/ fs' = [fs EXCEPT !.pc = "done",
                           !.calls = Append(@, [fn |-> "primary", args |-> fs.args,
                                                ok |-> TRUE]),
                           !.result = [kind |-> "returned",
                                       value |-> [fn |-> "primary", n |-> fs.attempt + 1]]]
       \/ \E d \in Jittered(Delay(fs.attempt)) :
            fs' = [fs EXCEPT !.pc = "sleep",
                             !.calls = Append(@, [fn |-> "primary", args |-> fs.args,
                                                  ok |-> FALSE]),
                             !.last_exception = [fn |-> "primary", n |-> fs.attempt + 1],
                             !.delays = Append(@, d)]
    /\ UNCHANGED <<st_config, fb_config, fb, embVars, frVars, tsVars, memVars, regVars, pmVars>>

\* line 67 and back to line 53: time.sleep(delay) is over
SleepDelay ==
    /\ fs.pc = "sleep"
    /\ fs' = [fs EXCEPT !.attempt = @ + 1,
                        !.pc = IF StMoreAttempts(fs.attempt + 1) THEN "attempt" ELSE "after"]
    /\ UNCHANGED <<st_config, fb_config, fb, embVars, frVars, tsVars, memVars, regVars, pmVars>>

\* lines 70-80: the loop is over without a return
AfterAttempts ==
    /\ fs.pc = "after"
    /\ IF UseFallback
         THEN fs' = [fs EXCEPT
                 !.pc = "done",
                 !.calls = Append(@, [fn |-> "fallback", args |-> fs.args,
                                      ok |-> st_config.fallback = "ok"]),
                 !.result = [kind |-> IF st_config.fallback = "ok" THEN "returned"
                                                                    ELSE "raised",
                             value |-> [fn |-> "fallback", n |-> 1]]]
         ELSE fs' = [fs EXCEPT
                 !.pc = "done",
                 !.result = [kind |-> "raised",
                             value |-> IF fs.last_exception = NoException
                                         THEN RaiseNoneError
                                         ELSE fs.last_exception]]
    /\ UNCHANGED <<st_config, fb_config, fb, embVars, frVars, tsVars, memVars, regVars, pmVars>>

\* ================================================ EmbeddingFallbackManager
\* what one entry of the provider list does when get_embedding reaches it:
\*   "ok"           its get_embedding returns the service's vector
\*   "fail"         its get_embedding raises (the providers of test_fallback.py)
\*   "unbuildable"  its constructor raises ValueError (no API key,
\*                  embedding_providers.py lines 79-80, 136-137)
\*   "api_error"    the request inside get_embedding fails and the provider
\*                  returns a zero vector (embedding_providers.py lines 116-119)
\*   "dummy_entry"  its type is neither "openai" nor "groq": the entry is a
\*                  DummyEmbeddingProvider (embedding_providers.py lines 241-242)
EmbProviderModes == {"ok", "fail", "unbuildable", "api_error", "dummy_entry"}
EmbProviderLists == UNION {[1..n -> EmbProviderModes] : n \in 0..MaxEmbProviders}
EmbRetryChoices == 1..DEFAULT_MAX_RETRIES
\* dummy_dimension of the manager and "dimension" of a dummy entry
DimensionChoices == {1, 3, 40}
Texts == {"A", "B"}

\* hashlib.md5(text.encode()).hexdigest(), digit by digit, for the two texts
MD5Hex(text) ==
    IF text = "A"
      THEN <<7, 15, 12, 5, 6, 2, 7, 0, 14, 7, 10, 7, 0, 15, 10, 8,
             1, 10, 5, 9, 3, 5, 11, 7, 2, 14, 10, 12, 11, 14, 2, 9>>
      ELSE <<9, 13, 5, 14, 13, 6, 7, 8, 15, 14, 5, 7, 11, 12, 12, 10,
             6, 1, 0, 1, 4, 0, 9, 5, 7, 10, 15, 10, 11, 5, 7, 1>>

RECURSIVE SumSq(_)
SumSq(v) == IF v = <<>> THEN 0 ELSE v[1] * v[1] + SumSq(Tail(v))

\* DummyEmbeddingProvider.get_embedding, embedding_providers.py lines 206-222.
\* Component i is (int(digit, 16) / 15) * 2 - 1 = num[i] / 15, divided by the
\* norm sqrt(SumSq(num)) / 15 when that is positive: the vector is
\* num[i] / sqrt(den2), kept exact as the pair (num, den2).
DummyEmbedding(text, dimension) ==
    LET num == [i \in 1..dimension |->
                  2 * MD5Hex(text)[((i - 1) % MD5_HEX_LENGTH) + 1] - 15]
    IN [num |-> num, den2 |-> IF SumSq(num) > 0 THEN SumSq(num) ELSE 225]

NoVector == [kind |-> "none", origin |-> "none", dim |-> 0, vec |-> <<>>]

\* variant: like the LLM manager, the last error is raised after the last entry
LastResortRaises(text) ==
    [kind |-> "raised", origin |-> "last_resort", dim |-> 0, vec |-> <<>>]

\* lines 193-195 and 218-220: DummyEmbeddingProvider({"dimension": dummy_dimension})
LastResort(text) ==
    [kind |-> "dummy", origin |-> "last_resort", dim |-> emb_config.dummy_dimension,
     vec |-> DummyEmbedding(text, emb_config.dummy_dimension)]

\* what a returning call of the provider at entry j hands back
ProviderVector(j, text) ==
    CASE emb_config.providers[j] = "api_error" ->
           [kind |-> "zero", origin |-> "provider", dim |-> OPENAI_ZERO_DIMENSION,
            vec |-> <<>>]
      [] emb_config.providers[j] = "dummy_entry" ->
           [kind |-> "dummy", origin |-> "provider", dim |-> emb_config.entry_dimension,
            vec |-> DummyEmbedding(text, emb_config.entry_dimension)]
      [] OTHER ->
           [kind |-> "real", origin |-> "provider", dim |-> 0, vec |-> <<>>]

EmbIdleCall == [pc |-> "idle", i |-> 0, attempt |-> 0, text |-> "-", log |-> <<>>,
                result |-> NoVector, ncalls |-> 0, history |-> {}]

EmbIdle ==
    /\ emb_config = [max_retries |-> DEFAULT_MAX_RETRIES, providers |-> <<>>,
                     dummy_dimension |-> 1, entry_dimension |-> 1]
    /\ emb = EmbIdleCall

EmbInit ==
    /\ emb_config \in [max_retries : EmbRetryChoices, providers : EmbProviderLists,
                       dummy_dimension : DimensionChoices,
                       entry_dimension : DimensionChoices]
    /\ emb = EmbIdleCall

EmbMoreAttempts(done) == done < emb_config.max_retries

\* the loop of lines 200-214 moves to the next entry, or is over (lines 216-220)
EmbNextEntry ==
    IF emb.i < Len(emb_config.providers)
      THEN [emb EXCEPT !.pc = "build", !.i = @ + 1, !.attempt = 0]
      ELSE [emb EXCEPT !.pc = "done", !.result = LastResort(emb.text)]

\* get_embedding is called: lines 191-200
GetEmbedding ==
    /\ emb.pc = "idle"
    /\ \E x \in Texts :
         IF emb_config.providers = <<>>
           THEN emb' = [emb EXCEPT !.pc = "done", !.text = x, !.result = LastResort(x)]
           ELSE emb' = [emb EXCEPT !.pc = "build", !.text = x, !.i = 1, !.attempt = 0]
    /\ UNCHANGED <<emb_config, fb_config, fb, stVars, frVars, tsVars, memVars, regVars, pmVars>>

\* lines 203-204 and 212-214: get_embedding_provider builds the entry's provider,
\* or its constructor raises and the loop goes on
EmbBuild ==
    /\ emb.pc = "build"
    /\ IF emb_config.providers[emb.i] = "unbuildable"
         THEN emb' = [EmbNextEntry EXCEPT
                        !.log = Append(emb.log, [provider |-> emb.i, step |-> "build",
                                                 ok |-> FALSE])]
         ELSE emb' = [emb EXCEPT !.pc = "attempt"]
    /\ UNCHANGED <<emb_config, fb_config, fb, stVars, frVars, tsVars, memVars, regVars, pmVars>>

\* lines 207-211 with fallback.py lines 54-59: one call of provider.get_embedding
EmbAttempt ==
    /\ emb.pc = "attempt"
    /\ IF emb_config.providers[emb.i] = "fail"
         THEN emb' = [emb EXCEPT !.pc = "sleep",
                                 !.log = Append(@, [provider |-> emb.i, step |-> "call",
                                                    ok |-> FALSE])]
         ELSE emb' = [emb EXCEPT !.pc = "done",
                                 !.log = Append(@, [provider |-> emb.i, step |-> "call",
                                                    ok |-> TRUE]),
                                 !.result = ProviderVector(emb.i, emb.text)]
    /\ UNCHANGED <<emb_config, fb_config, fb, stVars, frVars, tsVars, memVars, regVars, pmVars>>

\* fallback.py lines 67-80, then lines 212-220: the sleep is over; try again, or
\* the budget is spent and the error raised is taken by the loop of get_embedding
EmbSleep ==
    /\ emb.pc = "sleep"
    /\ IF EmbMoreAttempts(emb.attempt + 1)
         THEN emb' = [emb EXCEPT !.pc = "attempt", !.attempt = @ + 1]
         ELSE emb' = EmbNextEntry
    /\ UNCHANGED <<emb_config, fb_config, fb, stVars, frVars, tsVars, memVars, regVars, pmVars>>

\* the manager is called again
EmbNextCall ==
    /\ emb.pc = "done"
    /\ emb.ncalls + 1 < MaxEmbCalls
    /\ emb' = [EmbIdleCall EXCEPT
                 !.ncalls = emb.ncalls + 1,
                 !.history = emb.history \cup {[text |-> emb.text, result |-> emb.result]}]
    /\ UNCHANGED <<emb_config, fb_config, fb, stVars, frVars, tsVars, memVars, regVars, pmVars>>

\* ================================================= _read_response framing
\* JSON text as a sequence of tokens; white space, the line breaks of an
\* indented encoding included, may stand between any two tokens.  "k:" is a
\* member key with its colon.
Scalars == {"1", "2"}

RECURSIVE ParseValue(_, _), ParseElems(_, _), ParseMembers(_, _)
\* json.loads as a recogniser: the position after the value that starts at i,
\* or 0 when no value starts there
ParseValue(s, i) ==
    IF i > Len(s) THEN 0
    ELSE IF s[i] \in Scalars THEN i + 1
    ELSE IF s[i] = "["
      THEN IF i + 1 <= Len(s) /\ s[i + 1] = "]" THEN i + 2 ELSE ParseElems(s, i + 1)
    ELSE IF s[i] = "{"
      THEN IF i + 1 <= Len(s) /\ s[i + 1] = "}" THEN i + 2 ELSE ParseMembers(s, i + 1)
    ELSE 0

ParseElems(s, i) ==
    LET j == ParseValue(s, i) IN
    IF j = 0 \/ j > Len(s) THEN 0
    ELSE IF s[j] = "," THEN ParseElems(s, j + 1)
    ELSE IF s[j] = "]" THEN j + 1
    ELSE 0

ParseMembers(s, i) ==
    IF i > Len(s) \/ s[i] # "k:" THEN 0
    ELSE LET j == ParseValue(s, i + 1) IN
         IF j = 0 \/ j > Len(s) THEN 0
         ELSE IF s[j] = "," THEN ParseMembers(s, j + 1)
         ELSE IF s[j] = "}" THEN j + 1
         ELSE 0

\* json.loads(text) succeeds: one value and nothing after it
IsJson(s) == s # <<>> /\ ParseValue(s, 1) = Len(s) + 1

\* the values the child answers with, in their compact encoding
FrameValues == {<<"1">>,
                <<"[", "1", ",", "2", "]">>,
                <<"[", "[", "1", "]", "]">>,
                <<"{", "k:", "1", "}">>,
                <<"{", "k:", "[", "1", ",", "2", "]", "}">>}

RECURSIVE LinesOf(_, _, _)
\* the encoding s written with a line break after every position in cuts
LinesOf(s, cuts, from) ==
    IF from > Len(s) THEN <<>>
    ELSE LET ends == {c \in cuts : c >= from}
             to == IF ends = {} THEN Len(s)
                   ELSE CHOOSE c \in ends : \A d \in ends : c <= d
         IN <<SubSeq(s, from, to)>> \o LinesOf(s, cuts, to + 1)

FrIdleRead == [pc |-> "idle", value |-> <<>>, lines |-> <<>>, parts |-> <<>>,
               result |-> <<>>]

FrIdle == fr = FrIdleRead

\* the child has written one encoding of a value; _read_response starts
\* (lines 257-263)
FrStart ==
    /\ fr.pc = "idle"
    /\ \E v \in FrameValues : \E cuts \in SUBSET (1..(Len(v) - 1)) :
         fr' = [fr EXCEPT !.pc = "reading", !.value = v,
                          !.lines = LinesOf(v, cuts, 1)]
    /\ UNCHANGED <<fb_config, fb, stVars, embVars, tsVars, memVars, regVars, pmVars>>

\* lines 266-298: readline returns the next line; the line alone is returned
\* when it decodes, else it joins response_parts and they are returned when
\* they decode together
FrReadLine ==
    /\ fr.pc = "reading"
    /\ fr.lines # <<>>
    /\ LET line == Head(fr.lines)
           combined == fr.parts \o line
       IN IF IsJson(line)
            THEN fr' = [fr EXCEPT !.pc = "done", !.lines = Tail(@), !.result = line]
            ELSE IF IsJson(combined)
              THEN fr' = [fr EXCEPT !.pc = "done", !.lines = Tail(@),
                                    !.parts = combined, !.result = combined]
              ELSE fr' = [fr EXCEPT !.lines = Tail(@), !.parts = combined]
    /\ UNCHANGED <<fb_config, fb, stVars, embVars, tsVars, memVars, regVars, pmVars>>

\* ================================================================ TaskStore
\* Python's None
None == "None"

\* the argument values of the task tools (task_tools.py)
Descriptions == {"Task", "task"}
DueDates == {None, "2025-01-31"}
Priorities == {"media", "alta"}
Statuses == {"pendente", "concluida"}

\* str.lower() on the descriptions above
Lower(str) == IF str = "Task" THEN "task" ELSE str

\* json.dump / json.load on one value: None is written as null, a string as a
\* string
Encode(v) == IF v = None THEN [null |-> TRUE, str |-> ""]
                         ELSE [null |-> FALSE, str |-> v]

Decode(j) == IF j.null THEN None ELSE j.str

\* Task.__init__, task_store.py lines 36-42 (uuid4 never repeats: the n-th id)
NewTask(n, description, due_date, priority) ==
    [id |-> ToString(n), description |-> description, due_date |-> due_date,
     priority |-> priority, status |-> "pendente"]

\* Task.to_dict, lines 46-54
ToDict(t) == [id |-> t.id, description |-> t.description, due_date |-> t.due_date,
              priority |-> t.priority, status |-> t.status]

\* variant: from_dict does not read the status key
FromDictDefaultStatus(d) ==
    [id |-> d.id, description |-> d.description, due_date |-> d.due_date,
     priority |-> d.priority, status |-> "pendente"]

\* Task.from_dict, lines 59-68: every key is present in a file _save_tasks
\* wrote, so no default of .get and no new uuid is taken
FromDict(d) ==
    [id |-> d.id, description |-> d.description, due_date |-> d.due_date,
     priority |-> d.priority, status |-> d.status]

\* the text json.dump writes for the list of dicts, lines 105-107
Dump(tasks) ==
    [i \in 1..Len(tasks) |->
        LET d == ToDict(tasks[i]) IN [k \in DOMAIN d |-> Encode(d[k])]]

NoFile == [kind |-> "absent", data |-> <<>>]

\* _save_tasks, lines 104-109: the file is written; or open() raises and the
\* file is as it was; or the write raises after open() truncated the file.
\* The IOError is printed and not raised
SaveOutcomes == {"ok", "open_failed", "write_failed"}

SaveTasks(store, outcome) ==
    CASE outcome = "ok" ->
           [store EXCEPT !.disk = [kind |-> "valid", data |-> Dump(store.tasks)],
                         !.persisted = store.tasks, !.last_save = "ok"]
      [] outcome = "open_failed" ->
           [store EXCEPT !.last_save = "open_failed", !.fails = @ + 1]
      [] OTHER ->
           [store EXCEPT !.disk = [kind |-> "corrupt", data |-> <<>>],
                         !.persisted = <<>>, !.last_save = "write_failed",
                         !.fails = @ + 1]

CanSave(outcome) == outcome = "ok" \/ ts.fails < MaxSaveFailures

\* _load_tasks, lines 87-93: the tasks of the file, in file order
LoadTasks(disk) ==
    IF disk.kind = "valid"
      THEN [i \in 1..Len(disk.data) |->
              LET j == disk.data[i] IN FromDict([k \in DOMAIN j |-> Decode(j[k])])]
      ELSE <<>>

\* get_task, lines 141-149: position of the task with this id, else of the
\* first task with this description whatever the case, else 0
GetTask(tasks, task_id, description) ==
    LET byId == {i \in 1..Len(tasks) : tasks[i].id = task_id}
        byDesc == {i \in 1..Len(tasks) :
                      Lower(tasks[i].description) = Lower(description)}
    IN IF task_id # None /\ byId # {}
         THEN CHOOSE i \in byId : TRUE
         ELSE IF description # None /\ byDesc # {}
                THEN CHOOSE i \in byDesc : \A j \in byDesc : i <= j
                ELSE 0

TaskIdArgs == {None} \cup {ToString(n) : n \in 1..MaxTasks}
DescriptionArgs == {None} \cup Descriptions

RemoveAt(seq, i) == SubSeq(seq, 1, i - 1) \o SubSeq(seq, i + 1, Len(seq))

\* TaskStore.__init__ on a path with no file, lines 81-87
TsIdle ==
    ts = [tasks |-> <<>>, nid |-> 0, disk |-> NoFile, persisted |-> <<>>,
          last_save |-> "none", fails |-> 0, store2 |-> <<>>, opened |-> FALSE]

\* BaseMemory.__init__, memory.py lines 23-26, with the default configuration
MemIdle == mem = [max_messages |-> 100, messages |-> <<>>, added |-> <<>>]

\* create_task, lines 125-128
CreateTask ==
    /\ ~ts.opened
    /\ ts.nid < MaxTasks
    /\ \E description \in Descriptions, due_date \in DueDates, priority \in Priorities,
          outcome \in SaveOutcomes :
         /\ CanSave(outcome)
         /\ ts' = SaveTasks([ts EXCEPT !.nid = @ + 1,
                                       !.tasks = Append(@, NewTask(ts.nid + 1, description,
                                                                   due_date, priority))],
                            outcome)
    /\ UNCHANGED <<fb_config, fb, stVars, embVars, frVars, memVars, regVars, pmVars>>

\* update_task_status, lines 198-203
UpdateTaskStatus ==
    /\ ~ts.opened
    /\ \E status \in Statuses, task_id \in TaskIdArgs, description \in DescriptionArgs,
          outcome \in SaveOutcomes :
         LET i == GetTask(ts.tasks, task_id, description) IN
         /\ CanSave(outcome)
         /\ ts' = IF i = 0 THEN ts
                  ELSE SaveTasks([ts EXCEPT !.tasks[i].status = status], outcome)
    /\ UNCHANGED <<fb_config, fb, stVars, embVars, frVars, memVars, regVars, pmVars>>

\* update_task_priority, lines 222-227
UpdateTaskPriority ==
    /\ ~ts.opened
    /\ \E priority \in Priorities, task_id \in TaskIdArgs, description \in DescriptionArgs,
          outcome \in SaveOutcomes :
         LET i == GetTask(ts.tasks, task_id, description) IN
         /\ CanSave(outcome)
         /\ ts' = IF i = 0 THEN ts
                  ELSE SaveTasks([ts EXCEPT !.tasks[i].priority = priority], outcome)
    /\ UNCHANGED <<fb_config, fb, stVars, embVars, frVars, memVars, regVars, pmVars>>

\* delete_task, lines 244-249
DeleteTask ==
    /\ ~ts.opened
    /\ \E task_id \in TaskIdArgs, description \in DescriptionArgs,
          outcome \in SaveOutcomes :
         LET i == GetTask(ts.tasks, task_id, description) IN
         /\ CanSave(outcome)
         /\ ts' = IF i = 0 THEN ts
                  ELSE SaveTasks([ts EXCEPT !.tasks = RemoveAt(@, i)], outcome)
    /\ UNCHANGED <<fb_config, fb, stVars, embVars, frVars, memVars, regVars, pmVars>>

\* a new TaskStore(storage_path) on the same path, lines 81-100: the file is
\* loaded; a file that does not decode is renamed to .bak.  The run ends here
OpenSecondStore ==
    /\ ~ts.opened
    /\ ts' = [ts EXCEPT !.opened = TRUE,
                        !.store2 = LoadTasks(ts.disk),
                        !.disk = IF ts.disk.kind = "corrupt" THEN NoFile ELSE @]
    /\ UNCHANGED <<fb_config, fb, stVars, embVars, frVars, memVars, regVars, pmVars>>


\* what one entry of the provider list does when generate_text reaches it:
\*   "ok", "fail", "flaky"  its generate_text returns, raises, or either (the
\*                          providers of test_fallback.py)
\*   "unbuildable"          its constructor raises (no API key, library missing)
\*                          and get_llm_provider returns a DummyProvider instead
\*                          (providers.py lines 749-751)
\*   "api_error"            the API call inside generate_text fails and the
\*                          provider returns the error message as its text
\*                          (providers.py lines 215-217)
ProviderModes == {"ok", "fail", "flaky", "unbuildable", "api_error"}

\* the text a returning call of a provider in mode m yields
TextOf(m) == CASE m = "unbuildable" -> "echo"
               [] m = "api_error" -> "error_text"
               [] OTHER -> "generated"
ProviderLists == UNION {[1..n -> ProviderModes] : n \in 0..MaxProviders}
\* fallback_strategy.max_retries of the manager's configuration
RetryChoices == 1..DEFAULT_MAX_RETRIES

NoError == [provider |-> 0, attempt |-> 0]
FbIdleCall == [pc |-> "idle", i |-> 0, attempt |-> 0, log |-> <<>>,
               result |-> [kind |-> "none", provider |-> 0],
               last_exception |-> NoError, raised |-> NoError, text |-> "none",
               ncalls |-> 0, prev |-> [kind |-> "none", provider |-> 0]]
FbIdle == fb_config = [max_retries |-> DEFAULT_MAX_RETRIES, providers |-> <<>>]
          /\ fb = FbIdleCall
          /\ StIdle /\ EmbIdle /\ FrIdle /\ TsIdle /\ MemIdle

FbInit ==
    /\ fb_config \in [max_retries : RetryChoices, providers : ProviderLists]
    /\ fb = FbIdleCall
    /\ StIdle /\ EmbIdle /\ FrIdle /\ TsIdle /\ MemIdle

\* fallback.py line 53: for attempt in range(self.max_retries), after one more failure
\* variant: the attempt loop runs one more round per provider
MoreAttemptsOneMore(done) == done <= fb_config.max_retries

MoreAttempts(done) == done < fb_config.max_retries

\* LLMFallbackManager.generate_text, fallback.py lines 138-148: no provider is an
\* error, else the first provider is built and execute_with_fallback entered
GenerateText ==
    /\ fb.pc = "idle"
    /\ IF fb_config.providers = <<>>
         THEN fb' = [fb EXCEPT !.pc = "done",
                               !.result = [kind |-> "no_providers", provider |-> 0]]
         ELSE fb' = [fb EXCEPT !.pc = "attempt", !.i = 1, !.attempt = 0]
    /\ UNCHANGED <<fb_config, stVars, embVars, frVars, tsVars, memVars, regVars, pmVars>>

\* execute_with_fallback, fallback.py lines 54-59: one call of the primary function
PrimaryAttempt ==
    /\ fb.pc = "attempt"
    /\ \/ /\ fb_config.providers[fb.i] \in {"ok", "flaky", "unbuildable", "api_error"}
          /\ fb' = [fb EXCEPT !.pc = "done",
                              !.log = Append(@, [provider |-> fb.i, ok |-> TRUE]),
                              !.result = [kind |-> "text", provider |-> fb.i],
                              !.text = TextOf(fb_config.providers[fb.i])]
       \/ /\ fb_config.providers[fb.i] \in {"fail", "flaky"}
          /\ fb' = [fb EXCEPT !.pc = "sleep",
                              !.log = Append(@, [provider |-> fb.i, ok |-> FALSE]),
                              !.last_exception = [provider |-> fb.i, attempt |-> fb.attempt + 1]]
    /\ UNCHANGED <<fb_config, stVars, embVars, frVars, tsVars, memVars, regVars, pmVars>>

\* the entries of a provider list with entry j moved behind the others
Demoted(list, j) ==
    [k \in 1..Len(list) |-> IF k < j THEN list[k]
                             ELSE IF k < Len(list) THEN list[k + 1] ELSE list[j]]

\* variant: a provider whose budget is spent is moved to the end of the list
BackoffSleepDemotes ==
    /\ fb.pc = "sleep"
    /\ IF MoreAttempts(fb.attempt + 1)
         THEN /\ fb' = [fb EXCEPT !.pc = "attempt", !.attempt = @ + 1]
              /\ fb_config' = fb_config
         ELSE /\ fb_config' = [fb_config EXCEPT !.providers = Demoted(@, fb.i)]
              /\ IF fb.i < Len(fb_config.providers)
                   THEN fb' = [fb EXCEPT !.pc = "attempt", !.i = @ + 1, !.attempt = 0,
                                         !.raised = fb.last_exception,
                                         !.last_exception = NoError]
                   ELSE fb' = [fb EXCEPT !.pc = "done", !.raised = fb.last_exception,
                                         !.result = [kind |-> "error",
                                                     provider |-> fb.last_exception.provider]]
    /\ UNCHANGED <<stVars, embVars, frVars, tsVars, memVars, regVars, pmVars>>

\* fallback.py lines 67-80 and 157-163: the sleep is over; try again, or the
\* budget is spent: raise the last error, which generate_text records before it
\* moves to the next provider or raises it itself
BackoffSleep ==
    /\ fb.pc = "sleep"
    /\ IF MoreAttempts(fb.attempt + 1)
         THEN fb' = [fb EXCEPT !.pc = "attempt", !.attempt = @ + 1]
         ELSE IF fb.i < Len(fb_config.providers)
                THEN fb' = [fb EXCEPT !.pc = "attempt", !.i = @ + 1, !.attempt = 0,
                                      !.raised = fb.last_exception,
                                      !.last_exception = NoError]
                ELSE fb' = [fb EXCEPT !.pc = "done", !.raised = fb.last_exception,
                                      !.result = [kind |-> "error",
                                                  provider |-> fb.last_exception.provider]]
    /\ UNCHANGED <<fb_config, stVars, embVars, frVars, tsVars, memVars, regVars, pmVars>>

\* the manager is called again: generate_text starts over at lines 138-144
FbNextCall ==
    /\ fb.pc = "done"
    /\ fb.ncalls + 1 < MaxFbCalls
    /\ fb' = [FbIdleCall EXCEPT !.ncalls = fb.ncalls + 1, !.prev = fb.result]
    /\ UNCHANGED <<fb_config, stVars, embVars, frVars, tsVars, memVars, regVars, pmVars>>

\* ======================================================= AgentProcessFactory
AgentIds == {"a1", "a2"}
Prompts == {"A", "B"}
Dispatchers == {1, 2}
Pids == 1..MaxProc
\* memory_config.max_messages of the stored agent configurations
MaxMessagesChoices == {2, 6}

NoInstance == [exists |-> FALSE, agent_id |-> "-", active |-> FALSE,
               max_messages |-> 0, messages |-> <<>>, tools |-> <<>>]

IdleDispatch == [pc |-> "idle", pid |-> 0, prompt |-> "-", enriched |-> "-",
                 conversation |-> <<>>, content |-> "-", result |-> "none",
                 upos |-> 0]

\* the agent_tools rows load_agent_config stores for an agent id (factory.py
\* lines 63-109)
AgentTools(a) ==
    IF a = "a1" THEN <<[name |-> "search", enabled |-> TRUE],
                       [name |-> "mail", enabled |-> FALSE]>>
                ELSE <<>>

\* create_agent, lines 157-166: the descriptors of the enabled tools
ToolsConfig(a) ==
    LET on == SelectSeq(AgentTools(a), LAMBDA tool : tool.enabled)
    IN [i \in 1..Len(on) |-> [name |-> on[i].name]]

RegInit ==
    /\ processes = [p \in Pids |-> NoInstance]
    /\ agent_configs = [a \in AgentIds |-> 0]
    /\ nproc = 0
    /\ rcur = 0
    /\ rtask = [d \in Dispatchers |-> IdleDispatch]
    /\ lastStatus = [pid |-> 0, status |-> "none"]
    /\ lastReturn = "none"
    /\ terminated = {}
    /\ serial = [p \in Pids |-> <<>>]
    /\ trimmed = [p \in Pids |-> FALSE]

Msg(role, content) == [role |-> role, content |-> content]

\* DummyProvider.generate_response: "Echo: " + the enriched prompt
Echo(text) == IF text = "A" THEN "Echo: A" ELSE "Echo: B"

\* variant: trimming keeps the newest max_messages entries, whatever their role
TrimSeqDropsSystem(msgs, cap) ==
    IF Len(msgs) > cap THEN SubSeq(msgs, Len(msgs) - cap + 1, Len(msgs)) ELSE msgs

\* SimpleMemory._trim_memory_if_needed, memory.py lines 128-136
TrimSeq(msgs, cap) ==
    IF Len(msgs) > cap
      THEN LET excess == Len(msgs) - cap
               keep == SelectSeq(SubSeq(msgs, 1, excess), LAMBDA m : m.role = "system")
           IN keep \o SubSeq(msgs, excess + 1, Len(msgs))
      ELSE msgs

\* BaseMemory.add_user_message / add_assistant_message, memory.py lines 28-54
AddMessage(inst, role, content) ==
    [inst EXCEPT !.messages = TrimSeq(Append(@, Msg(role, content)), inst.max_messages)]

\* memory_config.max_messages of the SimpleMemory under test
MemMaxChoices == {0, 1, 2}

\* BaseMemory.__init__, memory.py lines 23-26
MemInit ==
    \E m \in MemMaxChoices :
        mem = [max_messages |-> m, messages |-> <<>>, added |-> <<>>]

\* the n-th add stores content n; `added` keeps every message ever added
MemAdd(role) ==
    /\ Len(mem.added) < MaxAdds
    /\ LET content == ToString(Len(mem.added) + 1) IN
       mem' = [AddMessage(mem, role, content) EXCEPT
                  !.added = Append(@, Msg(role, content))]
    /\ UNCHANGED <<fb_config, fb, stVars, embVars, frVars, tsVars, regVars, pmVars>>

\* BaseMemory.add_user_message, memory.py lines 28-40
AddUserMessage == MemAdd("user")

\* BaseMemory.add_assistant_message, memory.py lines 42-54
AddAssistantMessage == MemAdd("assistant")

\* BaseMemory.add_system_message, memory.py lines 56-68
AddSystemMessage == MemAdd("system")

\* NoKnowledgeBase.enrich_prompt, knowledge_base.py lines 405-415
EnrichPrompt(prompt) == prompt

\* variant: the provider call is awaited, so a dispatch yields before "gen"
RegYieldsAtGenerate(pc) == pc = "gen"

\* send_prompt contains no await: a dispatcher never gives the loop back
\* between its first and its last statement (factory.py lines 202-254)
RegYields(pc) == FALSE

RegSched(d, newpc) == IF newpc = "done" \/ RegYields(newpc) THEN 0 ELSE d

RegRuns(d, at) == rtask[d].pc = at /\ rcur \in {0, d}

InsertAt(s, i, e) == SubSeq(s, 1, i) \o <<e>> \o SubSeq(s, i + 1, Len(s))

\* an instance of agent a is in the table
HasInstance(a) == \E p \in Pids : processes[p].exists /\ processes[p].agent_id = a

\* get_active_agents, factory.py lines 310-314, on a table
ActiveIn(table) == {p \in Pids : table[p].exists /\ table[p].active}

GetActiveAgents == ActiveIn(processes)

\* variant: the id of a terminated instance is handed out again
CreateAgentReusesId(a) ==
    /\ rcur = 0
    /\ \/ /\ agent_configs[a] = 0
          /\ lastReturn' = "create_failed"
          /\ UNCHANGED <<processes, agent_configs, nproc, serial, trimmed>>
       \/ /\ nproc < MaxProc
          /\ \E m \in MaxMessagesChoices :
               /\ agent_configs[a] \in {0, m}
               /\ agent_configs' = [agent_configs EXCEPT ![a] = m]
               /\ LET free == {q \in Pids : processes[q].exists /\ ~processes[q].active}
                      id == IF free = {} THEN nproc + 1 ELSE CHOOSE q \in free : TRUE
                  IN /\ processes' = [processes EXCEPT ![id] =
                                        [exists |-> TRUE, agent_id |-> a, active |-> TRUE,
                                         max_messages |-> m, messages |-> <<>>,
                                         tools |-> ToolsConfig(a)]]
                     /\ nproc' = IF free = {} THEN nproc + 1 ELSE nproc
          /\ lastReturn' = "created"
          /\ UNCHANGED <<serial, trimmed>>
    /\ UNCHANGED <<rcur, rtask, lastStatus, terminated, fbVars, pmVars>>

\* create_agent, factory.py lines 130-186 (load_agent_config lines 53-115);
\* str(uuid.uuid4()) of line 139 is the next id never handed out before
CreateAgent(a) ==
    /\ rcur = 0
    /\ \/ \* the configuration cannot be loaded: ValueError, nothing stored
          /\ agent_configs[a] = 0
          /\ lastReturn' = "create_failed"
          /\ UNCHANGED <<processes, agent_configs, nproc, serial, trimmed>>
       \/ /\ nproc < MaxProc
          /\ \E m \in MaxMessagesChoices :
               /\ agent_configs[a] \in {0, m}
               /\ agent_configs' = [agent_configs EXCEPT ![a] = m]
               /\ processes' = [processes EXCEPT ![nproc + 1] =
                                  [exists |-> TRUE, agent_id |-> a, active |-> TRUE,
                                   max_messages |-> m, messages |-> <<>>,
                                   tools |-> ToolsConfig(a)]]
          /\ nproc' = nproc + 1
          /\ lastReturn' = "created"
          /\ UNCHANGED <<serial, trimmed>>
    /\ UNCHANGED <<rcur, rtask, lastStatus, terminated, fbVars, pmVars>>

\* variant: the history handed to the provider is taken before the user turn
\* is added
UserTurnStaleHistory(d, p, text) ==
    /\ processes' = [processes EXCEPT ![p] = AddMessage(@, "user", text)]
    /\ serial' = [serial EXCEPT ![p] = Append(@, Msg("user", text))]
    /\ trimmed' = [trimmed EXCEPT ![p] =
                     @ \/ Len(processes[p].messages) + 1 > processes[p].max_messages]
    /\ \/ rtask' = [rtask EXCEPT ![d] = [IdleDispatch EXCEPT !.pc = "gen",
                         !.pid = p, !.prompt = text,
                         !.conversation = processes[p].messages,
                         !.enriched = EnrichPrompt(text),
                         !.upos = Len(serial[p]) + 1]]
       \/ rtask' = [rtask EXCEPT ![d] = [IdleDispatch EXCEPT !.pc = "done",
                         !.pid = p, !.prompt = text, !.result = "failed"]]

\* send_prompt, factory.py lines 215-230: the user turn is added to the memory,
\* the history is read, and the knowledge lookup returns the enriched prompt or
\* raises (lines 256-258)
UserTurn(d, p, text) ==
    /\ processes' = [processes EXCEPT ![p] = AddMessage(@, "user", text)]
    /\ serial' = [serial EXCEPT ![p] = Append(@, Msg("user", text))]
    /\ trimmed' = [trimmed EXCEPT ![p] =
                     @ \/ Len(processes[p].messages) + 1 > processes[p].max_messages]
    /\ \/ rtask' = [rtask EXCEPT ![d] = [IdleDispatch EXCEPT !.pc = "gen",
                         !.pid = p, !.prompt = text,
                         !.conversation = processes'[p].messages,
                         !.enriched = EnrichPrompt(text),
                         !.upos = Len(serial[p]) + 1]]
       \/ rtask' = [rtask EXCEPT ![d] = [IdleDispatch EXCEPT !.pc = "done",
                         !.pid = p, !.prompt = text, !.result = "failed"]]

\* variant: send_prompt does not look at the active flag
SendPromptBeginNoActiveCheck(d) ==
    /\ RegRuns(d, "idle")
    /\ \E p \in Pids, text \in Prompts :
         IF ~processes[p].exists
           THEN /\ rtask' = [rtask EXCEPT ![d] = [IdleDispatch EXCEPT !.pc = "done",
                                 !.pid = p, !.prompt = text, !.result = "not_found"]]
                /\ UNCHANGED <<processes, serial, trimmed>>
           ELSE UserTurn(d, p, text)
    /\ rcur' = RegSched(d, rtask'[d].pc)
    /\ UNCHANGED <<agent_configs, nproc, lastStatus, lastReturn, terminated,
                   fbVars, pmVars>>

\* send_prompt, factory.py lines 202-230: the two checks, then the user turn,
\* the history and the knowledge lookup
SendPromptBegin(d) ==
    /\ RegRuns(d, "idle")
    /\ \E p \in Pids, text \in Prompts :
         IF ~processes[p].exists
           THEN /\ rtask' = [rtask EXCEPT ![d] = [IdleDispatch EXCEPT !.pc = "done",
                                 !.pid = p, !.prompt = text, !.result = "not_found"]]
                /\ UNCHANGED <<processes, serial, trimmed>>
           ELSE IF ~processes[p].active
             THEN /\ rtask' = [rtask EXCEPT ![d] = [IdleDispatch EXCEPT !.pc = "done",
                                   !.pid = p, !.prompt = text, !.result = "inactive"]]
                  /\ UNCHANGED <<processes, serial, trimmed>>
             ELSE UserTurn(d, p, text)
    /\ rcur' = RegSched(d, rtask'[d].pc)
    /\ UNCHANGED <<agent_configs, nproc, lastStatus, lastReturn, terminated,
                   fbVars, pmVars>>

\* variant: a failed provider call takes the user turn back out of the memory
GenerateRollsBack(d) ==
    /\ RegRuns(d, "gen")
    /\ \/ /\ rtask' = [rtask EXCEPT ![d].pc = "append",
                                     ![d].content = Echo(rtask[d].enriched)]
          /\ UNCHANGED processes
       \/ /\ rtask' = [rtask EXCEPT ![d].pc = "done", ![d].result = "failed",
                                     ![d].upos = 0, ![d].conversation = <<>>]
          /\ processes' = [processes EXCEPT ![rtask[d].pid].messages =
                                               SubSeq(@, 1, Len(@) - 1)]
    /\ rcur' = RegSched(d, rtask'[d].pc)
    /\ UNCHANGED <<agent_configs, nproc, lastStatus, lastReturn, terminated,
                   serial, trimmed, fbVars, pmVars>>

\* factory.py lines 239-244: the provider answers or raises (lines 256-258)
Generate(d) ==
    /\ RegRuns(d, "gen")
    /\ \/ rtask' = [rtask EXCEPT ![d].pc = "append", ![d].content = Echo(rtask[d].enriched)]
       \/ rtask' = [rtask EXCEPT ![d].pc = "done", ![d].result = "failed", ![d].upos = 0,
                                 ![d].conversation = <<>>]
    /\ rcur' = RegSched(d, rtask'[d].pc)
    /\ UNCHANGED <<processes, agent_configs, nproc, lastStatus, lastReturn, terminated,
                   serial, trimmed, fbVars, pmVars>>

\* variant: the instances of one agent id share one memory manager
AppendAssistantShared(d) ==
    /\ RegRuns(d, "append")
    /\ LET p == rtask[d].pid
           i == rtask[d].upos IN
       /\ processes' = [q \in Pids |->
                           IF processes[q].exists
                              /\ processes[q].agent_id = processes[p].agent_id
                             THEN AddMessage(processes[q], "assistant", rtask[d].content)
                             ELSE processes[q]]
       /\ serial' = [serial EXCEPT ![p] = InsertAt(@, i, Msg("assistant", rtask[d].content))]
       /\ trimmed' = [trimmed EXCEPT ![p] =
                        @ \/ Len(processes[p].messages) + 1 > processes[p].max_messages]
       /\ rtask' = [e \in Dispatchers |->
                      IF e = d THEN [rtask[d] EXCEPT !.pc = "done", !.result = "ok",
                                                     !.upos = 0, !.conversation = <<>>]
                      ELSE IF rtask[e].pid = p /\ rtask[e].upos > i
                             THEN [rtask[e] EXCEPT !.upos = @ + 1]
                             ELSE rtask[e]]
    /\ rcur' = 0
    /\ UNCHANGED <<agent_configs, nproc, lastStatus, lastReturn, terminated,
                   fbVars, pmVars>>

\* factory.py lines 247-254: the assistant turn, then the result
AppendAssistant(d) ==
    /\ RegRuns(d, "append")
    /\ LET p == rtask[d].pid
           i == rtask[d].upos IN
       /\ processes' = [processes EXCEPT ![p] = AddMessage(@, "assistant", rtask[d].content)]
       /\ serial' = [serial EXCEPT ![p] = InsertAt(@, i, Msg("assistant", rtask[d].content))]
       /\ trimmed' = [trimmed EXCEPT ![p] =
                        @ \/ Len(processes[p].messages) + 1 > processes[p].max_messages]
       /\ rtask' = [e \in Dispatchers |->
                      IF e = d THEN [rtask[d] EXCEPT !.pc = "done", !.result = "ok",
                                                     !.upos = 0, !.conversation = <<>>]
                      ELSE IF rtask[e].pid = p /\ rtask[e].upos > i
                             THEN [rtask[e] EXCEPT !.upos = @ + 1]
                             ELSE rtask[e]]
    /\ rcur' = 0
    /\ UNCHANGED <<agent_configs, nproc, lastStatus, lastReturn, terminated,
                   fbVars, pmVars>>

\* variant: terminating an instance that is already inactive is refused
TerminateAgentOnce(p) ==
    /\ rcur = 0
    /\ IF processes[p].exists /\ processes[p].active
         THEN /\ processes' = [processes EXCEPT ![p].active = FALSE]
              /\ terminated' = terminated \cup {p}
              /\ lastReturn' = "True"
         ELSE /\ lastReturn' = "False"
              /\ UNCHANGED <<processes, terminated>>
    /\ UNCHANGED <<agent_configs, nproc, rcur, rtask, lastStatus, serial, trimmed,
                   fbVars, pmVars>>

\* variant: terminate removes the registry entry
TerminateAgentDeletes(p) ==
    /\ rcur = 0
    /\ IF processes[p].exists
         THEN /\ processes' = [processes EXCEPT ![p] = NoInstance]
              /\ terminated' = terminated \cup {p}
              /\ lastReturn' = "True"
         ELSE /\ lastReturn' = "False"
              /\ UNCHANGED <<processes, terminated>>
    /\ UNCHANGED <<agent_configs, nproc, rcur, rtask, lastStatus, serial, trimmed,
                   fbVars, pmVars>>

\* terminate_agent, factory.py lines 270-285
TerminateAgent(p) ==
    /\ rcur = 0
    /\ IF processes[p].exists
         THEN /\ processes' = [processes EXCEPT ![p].active = FALSE]
              /\ terminated' = terminated \cup {p}
              /\ lastReturn' = "True"
         ELSE /\ lastReturn' = "False"
              /\ UNCHANGED <<processes, terminated>>
    /\ UNCHANGED <<agent_configs, nproc, rcur, rtask, lastStatus, serial, trimmed,
                   fbVars, pmVars>>

\* variant: terminate_all_agents empties the table
TerminateAllAgentsClears ==
    /\ rcur = 0
    /\ LET known == {p \in Pids : processes[p].exists} IN
       /\ processes' = [p \in Pids |-> NoInstance]
       /\ terminated' = terminated \cup known
       /\ lastReturn' = ToString(Cardinality(known))
    /\ UNCHANGED <<agent_configs, nproc, rcur, rtask, lastStatus, serial, trimmed,
                   fbVars, pmVars>>

\* terminate_all_agents, factory.py lines 294-301: terminate_agent on every key
\* of the table, counting the calls that returned True
TerminateAllAgents ==
    /\ rcur = 0
    /\ LET known == {p \in Pids : processes[p].exists} IN
       /\ processes' = [p \in Pids |-> IF p \in known
                                          THEN [processes[p] EXCEPT !.active = FALSE]
                                          ELSE processes[p]]
       /\ terminated' = terminated \cup known
       /\ lastReturn' = ToString(Cardinality(known))
    /\ UNCHANGED <<agent_configs, nproc, rcur, rtask, lastStatus, serial, trimmed,
                   fbVars, pmVars>>

\* get_agent_status, factory.py lines 329-340
GetAgentStatus(p) ==
    /\ rcur = 0
    /\ lastStatus' = [pid |-> p,
                      status |-> IF ~processes[p].exists THEN "not_found"
                                 ELSE IF processes[p].active THEN "active" ELSE "inactive"]
    /\ UNCHANGED <<processes, agent_configs, nproc, rcur, rtask, lastReturn, terminated,
                   serial, trimmed, fbVars, pmVars>>

InitRegistry == PMInit /\ max_retries = 1 /\ RegInit /\ FbIdle

NextRegistry ==
    \/ \E a \in AgentIds : CreateAgent(a)
    \/ \E d \in Dispatchers : SendPromptBegin(d)
    \/ \E d \in Dispatchers : Generate(d)
    \/ \E d \in Dispatchers : AppendAssistant(d)
    \/ \E p \in Pids : TerminateAgent(p)
    \/ TerminateAllAgents
    \/ \E p \in Pids : GetAgentStatus(p)

PMStep(t) ==
    \/ CallSend(t) \/ CallInitialize(t) \/ CallShutdown(t)
    \/ InitBegin(t) \/ SpawnOk(t) \/ SpawnFail(t)
    \/ StartupDrain(t) \/ StartupError(t) \/ StartupRetry(t) \/ StartupDone(t)
    \/ InitRet(t)
    \/ CleanupBegin(t) \/ CleanupTerminateRaises(t) \/ CleanupWaitExited(t) \/ CleanupWaitTimeout(t) \/ CleanupRet(t)
    \/ RestartSleepDone(t)
    \/ LoopHead(t) \/ SendDrain(t)
    \/ ReadHead(t) \/ ReadChunk(t) \/ ReadEOF(t) \/ ReadSleepDone(t) \/ ReadTimeout(t)

\* two callers share one manager; each issues one call
Init == PMInit /\ max_retries = 1 /\ RegInit /\ FbIdle

Next ==
    \/ \E t \in Tasks : PMStep(t)
    \/ \E k \in Children : ChildRead(k)
    \/ \E k \in Children : ChildExit(k)

vars == <<pmVars, regVars, fbVars>>

Spec == Init /\ [][Next]_vars

\* one caller issues its calls one after the other, default retry budget
InitSolo == PMInit /\ max_retries = DEFAULT_PM_MAX_RETRIES /\ RegInit /\ FbIdle

NextSolo ==
    \/ PMStep(1)
    \/ NextCall(1)
    \/ \E k \in Children : ChildRead(k)
    \/ \E k \in Children : ChildExit(k)

SpecSolo == InitSolo /\ [][NextSolo]_vars

\* the event loop resumes every coroutine whose await has completed
SpecSoloFair == SpecSolo /\ WF_vars(PMStep(1))

SpecRegistry == InitRegistry /\ [][NextRegistry]_vars

\* one generate_text call of a manager, for every configuration
InitFallback == PMInit /\ max_retries = 1 /\ RegInit /\ FbInit

NextFallback == GenerateText \/ PrimaryAttempt \/ BackoffSleep

SpecFallback == InitFallback /\ [][NextFallback]_vars

\* one execute_with_fallback call under every configuration
InitStrategy ==
    /\ PMInit /\ max_retries = 1 /\ RegInit
    /\ fb_config = [max_retries |-> DEFAULT_MAX_RETRIES, providers |-> <<>>]
    /\ fb = FbIdleCall
    /\ StInit /\ EmbIdle /\ FrIdle /\ TsIdle /\ MemIdle

NextStrategy == ExecuteWithFallback \/ TryPrimary \/ SleepDelay \/ AfterAttempts

SpecStrategy == InitStrategy /\ [][NextStrategy]_vars

\* get_embedding calls under every configuration
InitEmbedding ==
    /\ PMInit /\ max_retries = 1 /\ RegInit
    /\ fb_config = [max_retries |-> DEFAULT_MAX_RETRIES, providers |-> <<>>]
    /\ fb = FbIdleCall
    /\ StIdle /\ EmbInit /\ FrIdle /\ TsIdle /\ MemIdle

NextEmbedding == GetEmbedding \/ EmbBuild \/ EmbAttempt \/ EmbSleep \/ EmbNextCall

SpecEmbedding == InitEmbedding /\ [][NextEmbedding]_vars

\* _read_response over every encoding of every value
InitFraming ==
    /\ PMInit /\ max_retries = 1 /\ RegInit
    /\ fb_config = [max_retries |-> DEFAULT_MAX_RETRIES, providers |-> <<>>]
    /\ fb = FbIdleCall
    /\ StIdle /\ EmbIdle /\ FrIdle /\ TsIdle /\ MemIdle

NextFraming == FrStart \/ FrReadLine

SpecFraming == InitFraming /\ [][NextFraming]_vars

\* one TaskStore, any sequence of its operations, then a second one is opened
InitTaskStore ==
    /\ PMInit /\ max_retries = 1 /\ RegInit
    /\ fb_config = [max_retries |-> DEFAULT_MAX_RETRIES, providers |-> <<>>]
    /\ fb = FbIdleCall
    /\ StIdle /\ EmbIdle /\ FrIdle /\ TsIdle /\ MemIdle

NextTaskStore ==
    \/ CreateTask \/ UpdateTaskStatus \/ UpdateTaskPriority \/ DeleteTask
    \/ OpenSecondStore

SpecTaskStore == InitTaskStore /\ [][NextTaskStore]_vars

\* one SimpleMemory under every max_messages, any sequence of adds
InitMemory ==
    /\ PMInit /\ max_retries = 1 /\ RegInit
    /\ fb_config = [max_retries |-> DEFAULT_MAX_RETRIES, providers |-> <<>>]
    /\ fb = FbIdleCall
    /\ StIdle /\ EmbIdle /\ FrIdle /\ TsIdle /\ MemInit

NextMemory == AddUserMessage \/ AddAssistantMessage \/ AddSystemMessage

SpecMemory == InitMemory /\ [][NextMemory]_vars

\* an LLM manager or an embedding manager, under every configuration, called
\* several times
InitManagers ==
    /\ PMInit /\ max_retries = 1 /\ RegInit
    /\ StIdle /\ FrIdle /\ TsIdle /\ MemIdle
    /\ fb = FbIdleCall
    /\ emb = EmbIdleCall
    /\ \/ /\ fb_config \in [max_retries : RetryChoices, providers : ProviderLists]
          /\ emb_config = [max_retries |-> DEFAULT_MAX_RETRIES, providers |-> <<>>,
                           dummy_dimension |-> 1, entry_dimension |-> 1]
       \/ /\ fb_config = [max_retries |-> DEFAULT_MAX_RETRIES, providers |-> <<>>]
          /\ emb_config \in [max_retries : EmbRetryChoices, providers : EmbProviderLists,
                              dummy_dimension : {1}, entry_dimension : {1}]

NextManagers ==
    \/ GenerateText \/ PrimaryAttempt \/ BackoffSleep \/ FbNextCall
    \/ GetEmbedding \/ EmbBuild \/ EmbAttempt \/ EmbSleep \/ EmbNextCall

SpecManagers == InitManagers /\ [][NextManagers]_vars

TypeOK ==
    /\ process \in 0..(MaxSpawn + 2)
    /\ cur \in {0} \cup Tasks
    /\ \A t \in Tasks : task[t].retry_count \in 0..(max_retries + 1)

\* ================================================================== claims

\* C1: exchanges on one ProcessManager are strictly ordered: no two calls have a
\* request in flight on the same child handle at the same time.
C1_ExchangesOrdered ==
    \A t \in Tasks, u \in Tasks :
        (t # u /\ InFlight(t) /\ InFlight(u)) => task[t].wh # task[u].wh

\* C2 (as claimed): one call performs at most max_retries restart cycles and at
\* most max_retries exchange attempts.
C2_AtMostMaxRetries ==
    \A t \in Tasks : task[t].restarts <= max_retries /\ task[t].attempts <= max_retries

\* C2 (amended): one call performs at most max_retries + 1 restart cycles and at
\* most max_retries + 1 exchange attempts, and it returns the retries-exhausted
\* error only after max_retries + 1 restart cycles.
C2_RetryBound ==
    \A t \in Tasks :
        /\ task[t].restarts <= max_retries + 1
        /\ task[t].attempts <= max_retries + 1
        /\ task[t].result = "exhausted" => task[t].restarts = max_retries + 1

C2_Witness ==
    /\ max_retries = DEFAULT_PM_MAX_RETRIES
    /\ task[1].result = "exhausted"
    /\ task[1].attempts = max_retries + 1
    /\ task[1].restarts = max_retries + 1

\* C3: a send_prompt_and_get_response call that has started eventually returns.
C3_NeverHangs == (task[1].op = "send") ~> (task[1].pc = "done")

\* C4: dispatches on one instance never interleave their memory mutations: the
\* history (while nothing was trimmed) is the one a one-at-a-time execution in
\* start order leaves, and two completed dispatches leave user, assistant,
\* user, assistant.
C4_DispatchSerialized ==
    /\ \A p \in Pids : ~trimmed[p] => processes[p].messages = serial[p]
    /\ \A p \in Pids :
         (/\ ~trimmed[p]
          /\ \A d \in Dispatchers : rtask[d].pid = p /\ rtask[d].result = "ok")
         => \E x \in Prompts, y \in Prompts :
              processes[p].messages = <<Msg("user", x), Msg("assistant", Echo(x)),
                                        Msg("user", y), Msg("assistant", Echo(y))>>

C4_Witness ==
    \E p \in Pids :
        /\ rtask[1].pid = p /\ rtask[1].result = "ok" /\ rtask[1].prompt = "A"
        /\ rtask[2].pid = p /\ rtask[2].result = "ok" /\ rtask[2].prompt = "B"
        /\ processes[p].messages = <<Msg("user", "A"), Msg("assistant", "Echo: A"),
                                     Msg("user", "B"), Msg("assistant", "Echo: B")>>

CountOf(log, p) == Cardinality({j \in 1..Len(log) : log[j].provider = p})

C7_OneLiveChild ==
    /\ Cardinality({k \in Children : child[k] = "live"}) <= 1
    /\ \A k \in Children :
         child[k] = "live" =>
            \/ process = k
            \/ \E t \in Tasks : task[t].pc = "cleanup_wait" /\ task[t].h = k

\* C8: when the response timeout elapses without a complete frame the call does
\* not return to its caller: it restarts the child and retries.
C8_TimeoutRestarts ==
    [][\A t \in Tasks :
          (task[t].pc = "read_head" /\ task[t].ticks >= ResponseTicks /\ process # 0)
          => task'[t].pc # "done"]_vars

\* C9: once a shutdown that was invoked while an exchange was in flight has
\* completed, no child process is live.
C9_ShutdownReclaims ==
    \A s \in Tasks :
        (task[s].op = "shutdown" /\ task[s].pc = "done" /\ task[s].overlap)
        => \A k \in Children : child[k] # "live"

\* C10 (as claimed): a call made while the supervisor is not Ready spawns no
\* process and attempts no IO.
C10_NoSpawnWhenNotReady ==
    \A t \in Tasks :
        task[t].ictx = "entry" =>
            task[t].pc \notin {"spawning", "startup_drain", "startup_sleep",
                               "startup_errsleep"}

\* C10 (amended): a call made while the supervisor is not Ready first runs
\* initialize(); it returns the failed-to-initialize error only if the
\* supervisor is still not initialized or not running after that, and it has
\* then written no prompt, run no restart and left no process handle.
C10_InitFailedMeansNoExchange ==
    \A t \in Tasks :
        task[t].result = "init_failed" =>
            /\ ~is_initialized \/ ~is_running
            /\ process = 0
            /\ task[t].attempts = 0
            /\ task[t].restarts = 0

C10_Witness ==
    /\ calls >= 1
    /\ task[1].result = "init_failed"

\* the values send_prompt_and_get_response hands back (manager.py lines 194,
\* 223, 227, 230, 248)
StructuredResults == {"ok", "parse_error", "empty", "exhausted", "init_failed"}

\* C11: send_prompt_and_get_response never raises: a call that has ended has
\* returned the parsed response or one of the error records, whatever the
\* child and the other callers did; undecodable output is returned as the
\* parse-error record, and transport failures as the retries-exhausted record
\* once the retry budget is used.
C11_NeverRaises ==
    \A t \in Tasks :
        (task[t].op = "send" /\ task[t].pc = "done") =>
            /\ task[t].result \in StructuredResults
            /\ task[t].result = "exhausted" => task[t].restarts = max_retries + 1
            /\ task[t].result \in {"ok", "parse_error", "empty"} => task[t].attempts >= 1

C11_Witness ==
    \E t \in Tasks, u \in Tasks :
        /\ task[t].op = "send" /\ task[t].pc = "done" /\ task[t].result = "parse_error"
        /\ task[u].op = "send" /\ task[u].pc = "done" /\ task[u].result = "exhausted"

\* positions of the primary_func and fallback_func calls of the current run
PrimaryCalls == {j \in 1..Len(fs.calls) : fs.calls[j].fn = "primary"}
FallbackCalls == {j \in 1..Len(fs.calls) : fs.calls[j].fn = "fallback"}

\* C12: execute_with_fallback calls primary_func at most max_retries times and
\* stops at the first success: the successful call is the last call made, its
\* result is returned, no delay is slept after it and fallback_func is not
\* called.
C12_StopsAtFirstSuccess ==
    /\ Cardinality(PrimaryCalls) <= st_config.max_retries
    /\ \A j \in PrimaryCalls :
         fs.calls[j].ok =>
            /\ j = Len(fs.calls)
            /\ fs.pc = "done"
            /\ fs.result = [kind |-> "returned", value |-> [fn |-> "primary", n |-> j]]
            /\ FallbackCalls = {}
            /\ Len(fs.delays) = j - 1
    /\ (fs.result.kind = "returned" /\ fs.result.value.fn = "primary") =>
         fs.calls[Len(fs.calls)] = [fn |-> "primary", args |-> fs.args, ok |-> TRUE]

C12_Witness ==
    /\ st_config.max_retries = DEFAULT_MAX_RETRIES
    /\ st_config.fallback = "ok"
    /\ fs.pc = "done"
    /\ Len(fs.calls) = 3
    /\ ~fs.calls[1].ok /\ ~fs.calls[2].ok /\ fs.calls[3].ok
    /\ fs.result = [kind |-> "returned", value |-> [fn |-> "primary", n |-> 3]]

C14_RaisesLastPrimaryError ==
    (/\ fs.pc = "done"
     /\ st_config.fallback = "none"
     /\ \A k \in PrimaryCalls : ~fs.calls[k].ok)
    => fs.result = [kind |-> "raised",
                    value |-> [fn |-> "primary", n |-> Cardinality(PrimaryCalls)]]

\* C15: without jitter the delay after the n-th failed attempt is
\* min(base_delay * 2^(n-1), max_delay); the delays never decrease and never
\* exceed max_delay; base_delay 1 s and max_delay 10 s give 1, 2, 4, 8, 10 s.
C15_BackoffMonotone ==
    ~st_config.jitter =>
        /\ \A n \in 1..Len(fs.delays) :
             /\ fs.delays[n] = Min(st_config.base_delay * Pow2(n - 1), st_config.max_delay)
             /\ fs.delays[n] <= st_config.max_delay
             /\ n > 1 => fs.delays[n - 1] <= fs.delays[n]
        /\ (/\ st_config.base_delay = 1000
            /\ st_config.max_delay = 10000
            /\ Len(fs.delays) >= 5)
           => SubSeq(fs.delays, 1, 5) = <<1000, 2000, 4000, 8000, 10000>>

C15_Witness ==
    /\ ~st_config.jitter
    /\ st_config.base_delay = DEFAULT_BASE_DELAY
    /\ st_config.max_delay = DEFAULT_MAX_DELAY
    /\ fs.delays = <<1000, 2000, 4000, 8000, 10000>>

\* C16: generate_text returns only text generated by a configured provider;
\* when every entry fails or cannot be constructed it raises the last error and
\* returns no substitute text.
C16_OnlyGeneratedText ==
    /\ fb.result.kind = "text" => fb.text = "generated"
    /\ (/\ fb.pc = "done"
        /\ fb_config.providers # <<>>
        /\ \A j \in 1..Len(fb_config.providers) :
             fb_config.providers[j] \in {"fail", "unbuildable", "api_error"})
       => fb.result.kind = "error"

\* the calls answered so far, the one just answered included
EmbAnswers ==
    emb.history \cup (IF emb.pc = "done"
                        THEN {[text |-> emb.text, result |-> emb.result]} ELSE {})

EmbLogOf(j) == {k \in 1..Len(emb.log) : emb.log[k].provider = j}

\* C17: get_embedding never raises and always returns a vector; entries are
\* tried in list order; the last-resort dummy embedding (of dummy_dimension) is
\* returned only when no provider is configured or when every entry, in order,
\* could not be built or failed max_retries calls, and in that case always.
C17_EmbeddingNeverRaises ==
    /\ \A a \in EmbAnswers : a.result.kind \in {"real", "zero", "dummy"}
    /\ \A k \in 1..Len(emb.log), l \in 1..Len(emb.log) :
         k < l => emb.log[k].provider <= emb.log[l].provider /\ ~emb.log[k].ok
    /\ (emb.pc = "done" /\ emb.result.origin = "last_resort") =>
         /\ emb.result = [kind |-> "dummy", origin |-> "last_resort",
                          dim |-> emb_config.dummy_dimension,
                          vec |-> DummyEmbedding(emb.text, emb_config.dummy_dimension)]
         /\ \A j \in 1..Len(emb_config.providers) :
              \/ /\ emb_config.providers[j] = "unbuildable"
                 /\ Cardinality(EmbLogOf(j)) = 1
              \/ /\ Cardinality(EmbLogOf(j)) = emb_config.max_retries
                 /\ \A k \in EmbLogOf(j) : emb.log[k].step = "call" /\ ~emb.log[k].ok
    /\ (/\ emb.pc = "done"
        /\ \A j \in 1..Len(emb_config.providers) :
             emb_config.providers[j] \in {"fail", "unbuildable"})
       => emb.result.origin = "last_resort"

C17_Witness ==
    /\ emb_config.providers = <<"unbuildable", "fail">>
    /\ emb_config.max_retries = DEFAULT_MAX_RETRIES
    /\ emb.pc = "done"
    /\ emb.result.origin = "last_resort"
    /\ Len(emb.log) = 4

\* C18: with every real provider failing or none configured, every answer is
\* the dummy vector of dummy_dimension components and unit norm, and two
\* answers for the same text are the same vector.
C18_DeterministicFallback ==
    (\A j \in 1..Len(emb_config.providers) :
        emb_config.providers[j] \in {"fail", "unbuildable", "api_error"})
    => /\ \A a \in EmbAnswers :
            /\ a.result.kind = "dummy"
            /\ Len(a.result.vec.num) = emb_config.dummy_dimension
            /\ SumSq(a.result.vec.num) = a.result.vec.den2
       /\ \A a \in EmbAnswers, b \in EmbAnswers :
            a.text = b.text => a.result = b.result

\* C19: whatever lines an encoding of a value V is written in, _read_response
\* returns V, whole and once: the text returned decodes to V and no line of the
\* encoding is left unread.
C19_FramingIdempotent ==
    fr.pc = "done" => (fr.result = fr.value /\ fr.lines = <<>>)

\* C20: create_agent for an agent id that already has an instance
\* fails with an already-exists error and leaves the instance table unchanged.
C20_CreateRejectsExisting ==
    [][\A a \in AgentIds :
          (CreateAgent(a) /\ HasInstance(a))
          => (processes' = processes /\ lastReturn' = "already_exists")]_vars

\* C21: send_prompt on an absent process id fails with the not-found error and
\* on an inactive instance with the inactive error; in both cases the call ends
\* at once (the provider is not invoked, no second attempt is made) and the
\* instance table, memories and active flags included, is unchanged.
C21_RejectedDispatchNoEffect ==
    [][\A d \in Dispatchers :
          SendPromptBegin(d) =>
            LET p == rtask'[d].pid IN
            /\ ~processes[p].exists =>
                  /\ rtask'[d].pc = "done" /\ rtask'[d].result = "not_found"
                  /\ rtask'[d].content = "-" /\ processes' = processes
            /\ (processes[p].exists /\ ~processes[p].active) =>
                  /\ rtask'[d].pc = "done" /\ rtask'[d].result = "inactive"
                  /\ rtask'[d].content = "-" /\ processes' = processes]_vars

C21_Witness ==
    \E d \in Dispatchers, e \in Dispatchers :
        /\ rtask[d].pc = "done" /\ rtask[d].result = "not_found"
        /\ ~processes[rtask[d].pid].exists
        /\ rtask[e].pc = "done" /\ rtask[e].result = "inactive"
        /\ processes[rtask[e].pid].exists /\ ~processes[rtask[e].pid].active

C24_ShutdownStops ==
    [][\A t \in Tasks :
          (CleanupRet(t) /\ task[t].cctx = "shutdown")
          => (process' = 0 /\ ~is_initialized' /\ ~is_running')]_vars

\* C25: when _read_response hands back text that does not decode, the call
\* returns the parse-error record in that same step: no restart and no further
\* attempt is made, and the child handle and the initialized and running
\* flags are what they were.
C25_DecodeFailureImmediate ==
    [][\A t \in Tasks :
          (task[t].parts /\ ~task'[t].parts /\ task'[t].result # "ok") =>
            /\ task'[t].pc = "done"
            /\ task'[t].result = "parse_error"
            /\ task'[t].restarts = task[t].restarts
            /\ task'[t].attempts = task[t].attempts
            /\ task'[t].retry_count = task[t].retry_count
            /\ process' = process
            /\ child' = child
            /\ is_initialized' = is_initialized
            /\ is_running' = is_running]_vars

C25_Witness ==
    /\ task[1].pc = "done"
    /\ task[1].result = "parse_error"
    /\ task[1].attempts = 1
    /\ task[1].restarts = 0
    /\ process # 0
    /\ child[process] = "live"
    /\ is_initialized /\ is_running

\* C27: the response a call returns is the child's reply to the request that
\* call wrote: a reply to an earlier request, emitted after that request's
\* call had given up, is never returned to a later call on the same handle.
C27_ReplyMatchesRequest ==
    \A t \in Tasks :
        (task[t].pc = "done" /\ task[t].result = "ok") => task[t].got = Request(t)

LastOf(seq) == seq[Len(seq)]

\* C28: a send_prompt that succeeds on an active instance adds the prompt as a
\* user turn before the provider is invoked, hands the provider a history that
\* ends with that user turn, and adds the provider's content as an assistant
\* turn after the provider returned; while the memory has room it grows by
\* exactly these two entries, user then assistant.
C28_UserThenProviderThenAssistant ==
    [][\A d \in Dispatchers :
          /\ (SendPromptBegin(d) /\ rtask'[d].pc = "gen") =>
                LET p == rtask'[d].pid
                    u == Msg("user", rtask'[d].prompt)
                IN /\ processes[p].active
                   /\ rtask'[d].conversation = processes'[p].messages
                   /\ LastOf(rtask'[d].conversation) = u
                   /\ Len(processes[p].messages) < processes[p].max_messages
                        => processes'[p].messages = Append(processes[p].messages, u)
          /\ Generate(d) => processes' = processes
          /\ AppendAssistant(d) =>
                LET p == rtask[d].pid
                    a == Msg("assistant", rtask[d].content)
                IN /\ rtask'[d].result = "ok"
                   /\ processes[p].messages = rtask[d].conversation
                   /\ LastOf(processes'[p].messages) = a
                   /\ Len(processes[p].messages) < processes[p].max_messages
                        => processes'[p].messages = Append(rtask[d].conversation, a)]_vars

C28_Witness ==
    \E d \in Dispatchers :
        LET p == rtask[d].pid IN
        /\ rtask[d].result = "ok" /\ rtask[d].prompt = "B"
        /\ processes[p].max_messages = 6
        /\ processes[p].messages = <<Msg("user", "B"), Msg("assistant", "Echo: B")>>
        /\ \A e \in Dispatchers \ {d} : rtask[e].pc = "idle"

C30_InstancesIndependent ==
    [][/\ \A d \in Dispatchers :
            (SendPromptBegin(d) \/ Generate(d) \/ AppendAssistant(d)) =>
               \A q \in Pids \ {rtask'[d].pid} : processes'[q] = processes[q]
       /\ \A p \in Pids :
            TerminateAgent(p) =>
               \A q \in Pids \ {p} : processes'[q] = processes[q]
       /\ \A q \in Pids :
            processes[q].exists => processes'[q].tools = processes[q].tools]_vars

C30_Witness ==
    /\ processes[1].exists /\ processes[2].exists
    /\ processes[1].agent_id = "a1" /\ processes[2].agent_id = "a1"
    /\ processes[1].tools = <<[name |-> "search"]>>
    /\ processes[2].tools = <<[name |-> "search"]>>
    /\ processes[1].active /\ ~processes[2].active
    /\ processes[1].messages = <<Msg("user", "A"), Msg("assistant", "Echo: A")>>
    /\ processes[2].messages = <<>>

\* C31: the conversation buffer is bounded: after every add on a SimpleMemory
\* the number of stored messages is at most max_messages.
C31_BufferBounded == Len(mem.messages) <= mem.max_messages

\* position of a stored message among the messages added
PosAdded(m) == CHOOSE k \in 1..Len(mem.added) : mem.added[k] = m

SystemKept ==
    \A k \in 1..Len(mem.added) :
        mem.added[k].role = "system" => mem.added[k] \in RangeOf(mem.messages)

OrderKept ==
    /\ \A i \in 1..Len(mem.messages) : mem.messages[i] \in RangeOf(mem.added)
    /\ \A i \in 1..Len(mem.messages), j \in 1..Len(mem.messages) :
         i < j => PosAdded(mem.messages[i]) < PosAdded(mem.messages[j])

NewestKept ==
    mem.added # <<>> => mem.added[Len(mem.added)] \in RangeOf(mem.messages)

\* C32 (as claimed): after any sequence of adds every system message ever added
\* is still stored, the most recently added message is stored, and the stored
\* messages are in insertion order.
C32_TrimKeeps == SystemKept /\ OrderKept /\ NewestKept

\* C32 (amended): after any sequence of adds every system message ever added is
\* still stored and the stored messages are in insertion order; the most
\* recently added message is stored when max_messages is at least 1.
C32_TrimKeepsGivenRoom ==
    /\ SystemKept
    /\ OrderKept
    /\ mem.max_messages >= 1 => NewestKept

C32_Witness ==
    /\ mem.max_messages = 2
    /\ mem.added = <<Msg("system", "1"), Msg("user", "2"), Msg("assistant", "3"),
                     Msg("user", "4")>>
    /\ mem.messages = <<Msg("system", "1"), Msg("assistant", "3"), Msg("user", "4")>>

C34_RestartOrder ==
    [][\A t \in Tasks :
        /\ task'[t].restarts = task[t].restarts + 1 =>
              task'[t].pc = "cleanup_begin" /\ task'[t].cctx = "restart"
        /\ task[t].cctx = "restart" =>
              /\ task[t].pc \in {"cleanup_begin", "cleanup_wait", "cleanup_ret"}
              /\ task'[t].pc \in {"cleanup_begin", "cleanup_wait", "cleanup_ret",
                                    "restart_sleep"}
        /\ (task'[t].pc = "restart_sleep" /\ task[t].pc # "restart_sleep") =>
              task[t].pc = "cleanup_ret" /\ task[t].cctx = "restart"
        /\ task[t].pc = "restart_sleep" =>
              \/ task'[t] = task[t]
              \/ task'[t].pc = "init_begin" /\ task'[t].ictx = "restart"
        /\ (task'[t].ictx = "restart" /\ task[t].ictx # "restart") =>
              task[t].pc = "restart_sleep"
        /\ (task'[t].pc = "cleanup_ret" /\ task[t].pc # "cleanup_ret") =>
              /\ process' = 0 /\ ~is_initialized' /\ ~is_running'
              /\ task'[t].sig \in {<<>>,
                                    <<Signal("terminate", "live")>>,
                                    <<Signal("terminate", "raised")>>,
                                    <<Signal("terminate", "live"),
                                      Signal("kill", "live")>>}
        /\ (task'[t].pc = "cleanup_ret" /\ task[t].pc = "cleanup_wait"
              /\ child[task[t].h] = "exited") =>
              task'[t].sig = <<Signal("terminate", "live")>>
       ]_vars

C34_Witness ==
    /\ task[1].pc = "init_begin" /\ task[1].ictx = "restart"
    /\ task[1].restarts = 2
    /\ process = 0 /\ ~is_initialized /\ ~is_running
    /\ \A k \in Children : child[k] # "live"

\* C35: in every reachable state is_initialized = is_running, and an
\* initialized manager has a process handle, whatever the interleaving of the
\* callers.
C35_FlagsAndHandle ==
    /\ is_initialized = is_running
    /\ is_initialized => process # 0

\* the attempts a call has logged go through the entries in list order: the
\* first is entry 1, each later one is the same entry again or, after a failure,
\* the next entry
TriedInOrder(log) ==
    \A k \in 1..Len(log) :
        IF k = 1
          THEN log[k].provider = 1
          ELSE /\ ~log[k - 1].ok
               /\ log[k].provider \in {log[k - 1].provider, log[k - 1].provider + 1}

\* the entry a call is at is the entry of its latest attempt, or the one after
AtLoggedEntry(call) ==
    /\ call.pc \in {"attempt", "sleep", "build"} => call.i >= 1
    /\ (call.log = <<>> /\ call.i >= 1) => call.i = 1
    /\ (call.log # <<>> /\ call.i >= 1) =>
          call.i \in {call.log[Len(call.log)].provider,
                       call.log[Len(call.log)].provider + 1}

\* C36: generate_text and get_embedding never change the provider list, and
\* every call, the first and the later ones, tries the entries in list order
\* from entry 1, whatever failed or succeeded in the calls before.
C36_NoReordering ==
    [][/\ fb_config' = fb_config
       /\ emb_config' = emb_config
       /\ (fb.pc = "idle" /\ fb'.pc # "idle" /\ fb_config.providers # <<>>) => fb'.i = 1
       /\ (emb.pc = "idle" /\ emb'.pc # "idle" /\ emb_config.providers # <<>>) => emb'.i = 1
       /\ TriedInOrder(fb'.log) /\ AtLoggedEntry(fb')
       /\ TriedInOrder(emb'.log) /\ AtLoggedEntry(emb')
      ]_vars

C36_Witness ==
    /\ fb.ncalls = 1 /\ fb.prev = [kind |-> "text", provider |-> 2]
    /\ fb_config.providers = <<"flaky", "ok">>
    /\ fb.pc = "done" /\ fb.result = [kind |-> "text", provider |-> 1]
    /\ fb.log = <<[provider |-> 1, ok |-> FALSE], [provider |-> 1, ok |-> TRUE]>>

\* C37: a create_agent call that succeeds stores a new active instance under
\* an id that no earlier call returned and that names no entry of the table,
\* and leaves every other entry as it was; a call that fails leaves the table
\* as it was.
C37_CreateFresh ==
    [][\A a \in AgentIds :
        CreateAgent(a) =>
          IF lastReturn' = "created"
            THEN \E p \in Pids :
                   /\ p \notin 1..nproc
                   /\ ~processes[p].exists
                   /\ processes'[p].exists /\ processes'[p].active
                   /\ processes'[p].agent_id = a
                   /\ \A q \in Pids \ {p} : processes'[q] = processes[q]
            ELSE /\ lastReturn' = "create_failed"
                 /\ processes' = processes
      ]_vars

C37_Witness ==
    /\ lastReturn = "created"
    /\ nproc = 2
    /\ processes[1].exists /\ ~processes[1].active /\ processes[1].messages # <<>>
    /\ processes[2].exists /\ processes[2].active /\ processes[2].messages = <<>>

\* C38: terminate_all_agents returns the number of instances that were active
\* when it was called, and afterwards get_active_agents() is empty.
C38_CountsActive ==
    [][TerminateAllAgents =>
         /\ lastReturn' = ToString(Cardinality(GetActiveAgents))
         /\ ActiveIn(processes') = {}
      ]_vars

====
